---- MODULE Spec2Model ----
(***************************************************************************)
(* cf-xray-proxy: transport selection, request rewriting, the upgrade      *)
(* handlers and the duplex bridge, modelled from src/index.ts,             *)
(* src/transports/*.ts and src/utils/socket.ts.                            *)
(*                                                                         *)
(* JavaScript strings are sequences of one-character strings, so that      *)
(* toLowerCase, startsWith, slice, includes, URLSearchParams parsing and   *)
(* serialisation are computed and not assumed.  An optional value (a       *)
(* header that may be absent, a nullable result) is <<>> when absent and   *)
(* <<v>> when present.                                                     *)
(***************************************************************************)
EXTENDS Integers, Sequences, FiniteSets, TLC

(***************************************************************************)
(* Bounds of the explored inputs.                                          *)
(***************************************************************************)
MaxSegs == 2
MaxParams == 2
MaxMsgs == 2
MaxErrors == 1

(***************************************************************************)
(* String literals of the program and of the explored requests.            *)
(***************************************************************************)
s_xhttp == <<"x", "h", "t", "t", "p">>
s_httpupgrade == <<"h", "t", "t", "p", "u", "p", "g", "r", "a", "d", "e">>
s_ws == <<"w", "s">>
s_transport == <<"t", "r", "a", "n", "s", "p", "o", "r", "t">>
s_transportEq == <<"t", "r", "a", "n", "s", "p", "o", "r", "t", "=">>
s_upgrade == <<"u", "p", "g", "r", "a", "d", "e">>
s_Upgrade == <<"U", "p", "g", "r", "a", "d", "e">>
s_websocket == <<"w", "e", "b", "s", "o", "c", "k", "e", "t">>
s_auto == <<"a", "u", "t", "o">>
s_packetup == <<"p", "a", "c", "k", "e", "t", "-", "u", "p">>
s_mode == <<"m", "o", "d", "e">>
s_ed == <<"e", "d">>
s_index == <<"/", "i", "n", "d", "e", "x", ".", "h", "t", "m", "l">>
s_GET == <<"G", "E", "T">>
s_HEAD == <<"H", "E", "A", "D">>
s_POST == <<"P", "O", "S", "T">>
s_texthtml == <<"t", "e", "x", "t", "/", "h", "t", "m", "l">>
s_document == <<"d", "o", "c", "u", "m", "e", "n", "t">>

s_WS == <<"W", "S">>
s_XHTTP == <<"X", "H", "T", "T", "P">>
s_bogus == <<"b", "o", "g", "u", "s">>
s_wsx == <<"w", "s", "x">>
s_x == <<"x">>
s_WebSocket == <<"W", "e", "b", "S", "o", "c", "k", "e", "t">>
s_keepalive == <<"k", "e", "e", "p", "-", "a", "l", "i", "v", "e">>
s_h2c == <<"h", "2", "c">>
q_tWS == <<"t", "r", "a", "n", "s", "p", "o", "r", "t", "=", "W", "S">>
q_tbogus == <<"t", "r", "a", "n", "s", "p", "o", "r", "t", "=", "b", "o", "g", "u", "s">>
q_tbare == <<"t", "r", "a", "n", "s", "p", "o", "r", "t">>
q_tenc == <<"%", "7", "4", "r", "a", "n", "s", "p", "o", "r", "t", "=", "h", "t", "t", "p", "u", "p", "g", "r", "a", "d", "e">>
q_mode == <<"m", "o", "d", "e", "=", "a", "u", "t", "o">>

UpperChars == <<"A", "B", "C", "D", "E", "F", "G", "H", "I", "J", "K", "L", "M", "N", "O", "P", "Q", "R", "S", "T", "U", "V", "W", "X", "Y", "Z">>
LowerChars == <<"a", "b", "c", "d", "e", "f", "g", "h", "i", "j", "k", "l", "m", "n", "o", "p", "q", "r", "s", "t", "u", "v", "w", "x", "y", "z">>
DigitChars == <<"0", "1", "2", "3", "4", "5", "6", "7", "8", "9">>
HexChars == <<"0", "1", "2", "3", "4", "5", "6", "7", "8", "9", "A", "B", "C", "D", "E", "F">>

(***************************************************************************)
(* String operations of the JavaScript runtime.                            *)
(***************************************************************************)
Min(a, b) == IF a <= b THEN a ELSE b

IndexIn(tbl, c) == IF \E i \in 1..Len(tbl) : tbl[i] = c
                   THEN CHOOSE i \in 1..Len(tbl) : tbl[i] = c
                   ELSE 0

toLowerCase(s) == [i \in 1..Len(s) |->
                     IF IndexIn(UpperChars, s[i]) > 0
                     THEN LowerChars[IndexIn(UpperChars, s[i])] ELSE s[i]]

toUpperCase(s) == [i \in 1..Len(s) |->
                     IF IndexIn(LowerChars, s[i]) > 0
                     THEN UpperChars[IndexIn(LowerChars, s[i])] ELSE s[i]]

startsWith(s, p) == Len(s) >= Len(p) /\ SubSeq(s, 1, Len(p)) = p

includes(s, p) == \E i \in 1..(Len(s) - Len(p) + 1) : SubSeq(s, i, i + Len(p) - 1) = p

\* String.prototype.slice(from) and slice(0, to)
sliceFrom(s, from) == SubSeq(s, from + 1, Len(s))
sliceTo(s, to) == SubSeq(s, 1, Min(Len(s), to))

\* index of the first occurrence of character c in s, 0 when there is none
FirstIndex(s, c) == IF \E i \in 1..Len(s) : s[i] = c
                    THEN CHOOSE i \in 1..Len(s) : s[i] = c /\ \A j \in 1..(i - 1) : s[j] # c
                    ELSE 0

RECURSIVE split(_, _)
split(s, c) == LET i == FirstIndex(s, c)
               IN IF i = 0 THEN <<s>>
                  ELSE <<SubSeq(s, 1, i - 1)>> \o split(SubSeq(s, i + 1, Len(s)), c)

RECURSIVE join(_, _)
join(parts, c) == IF parts = <<>> THEN <<>>
                  ELSE IF Len(parts) = 1 THEN parts[1]
                  ELSE parts[1] \o <<c>> \o join(Tail(parts), c)

(***************************************************************************)
(* URL query handling: the application/x-www-form-urlencoded parser and    *)
(* serialiser behind URL.searchParams.                                     *)
(***************************************************************************)
HexVal(c) == IndexIn(HexChars, c) - 1

CharOfCode(n) == IF n >= 97 /\ n <= 122 THEN LowerChars[n - 96]
                 ELSE IF n >= 65 /\ n <= 90 THEN UpperChars[n - 64]
                 ELSE IF n >= 48 /\ n <= 57 THEN DigitChars[n - 47]
                 ELSE IF n = 61 THEN "="
                 ELSE IF n = 38 THEN "&"
                 ELSE IF n = 37 THEN "%"
                 ELSE IF n = 43 THEN "+"
                 ELSE IF n = 47 THEN "/"
                 ELSE " "

RECURSIVE percentDecode(_)
percentDecode(s) ==
  IF s = <<>> THEN <<>>
  ELSE IF s[1] = "%" /\ Len(s) >= 3 /\ HexVal(toUpperCase(<<s[2]>>)[1]) >= 0
                                    /\ HexVal(toUpperCase(<<s[3]>>)[1]) >= 0
       THEN <<CharOfCode(16 * HexVal(toUpperCase(<<s[2]>>)[1]) + HexVal(toUpperCase(<<s[3]>>)[1]))>>
            \o percentDecode(SubSeq(s, 4, Len(s)))
       ELSE <<(IF s[1] = "+" THEN " " ELSE s[1])>> \o percentDecode(Tail(s))

\* one name/value tuple of a query
parseParam(p) == LET i == FirstIndex(p, "=")
                 IN IF i = 0 THEN [name |-> percentDecode(p), value |-> <<>>]
                    ELSE [name |-> percentDecode(SubSeq(p, 1, i - 1)),
                          value |-> percentDecode(SubSeq(p, i + 1, Len(p)))]

\* URL.searchParams of a URL whose query is q
searchParams(q) == LET parts == SelectSeq(split(q, "&"), LAMBDA p : p # <<>>)
                   IN [i \in 1..Len(parts) |-> parseParam(parts[i])]

\* URLSearchParams.get: the value of the first tuple named k, absent if none
paramsGet(ps, k) == IF \E i \in 1..Len(ps) : ps[i].name = k
                    THEN <<ps[CHOOSE i \in 1..Len(ps) :
                                ps[i].name = k /\ \A j \in 1..(i - 1) : ps[j].name # k].value>>
                    ELSE <<>>

paramsHas(ps, k) == \E i \in 1..Len(ps) : ps[i].name = k

paramsDelete(ps, k) == SelectSeq(ps, LAMBDA p : p.name # k)

urlencodeChar(c) == IF c = " " THEN <<"+">>
                    ELSE IF c = "=" THEN <<"%", "3", "D">>
                    ELSE IF c = "&" THEN <<"%", "2", "6">>
                    ELSE IF c = "%" THEN <<"%", "2", "5">>
                    ELSE IF c = "+" THEN <<"%", "2", "B">>
                    ELSE IF c = "/" THEN <<"%", "2", "F">>
                    ELSE <<c>>

RECURSIVE urlencode(_)
urlencode(s) == IF s = <<>> THEN <<>> ELSE urlencodeChar(s[1]) \o urlencode(Tail(s))

\* the query a URL gets when its searchParams list is updated
serializeParams(ps) ==
  join([i \in 1..Len(ps) |-> urlencode(ps[i].name) \o <<"=">> \o urlencode(ps[i].value)], "&")

\* Request.url / URL.toString(): path and query after the (constant) origin
href(r) == r.path \o (IF r.query = <<>> THEN <<>> ELSE <<"?">> \o r.query)

\* the URL.pathname setter of a special-scheme URL
setPathname(p) == IF p = <<>> \/ p[1] # "/" THEN <<"/">> \o p ELSE p

(***************************************************************************)
(* Requests.  Header names are the lower-cased names Headers uses.         *)
(***************************************************************************)
HeaderNames == {"x-transport-type", "connection", "upgrade", "host", "accept",
                "sec-fetch-dest", "sec-websocket-protocol", "sec-websocket-extensions",
                "x-xhttp-mode"}

headersDelete(h, n) == [h EXCEPT ![n] = <<>>]
headersSet(h, n, v) == [h EXCEPT ![n] = <<v>>]

\* h ?? d for an optional h
orElse(h, d) == IF h = <<>> THEN d ELSE h[1]

(***************************************************************************)
(* src/config.ts                                                           *)
(***************************************************************************)
SUPPORTED_TRANSPORTS == <<s_xhttp, s_httpupgrade, s_ws>>
DEFAULT_TRANSPORT == s_xhttp
BACKEND_ORIGIN == [ok |-> TRUE, origin |-> "http://127.0.0.1:10000", path |-> <<"/">>, query |-> <<>>]
BACKEND_UPGRADE_TIMEOUT_MS == 5000
BACKEND_PASSTHROUGH_TIMEOUT_MS == 15000

(***************************************************************************)
(* src/index.ts: transport selection and request rewriting                 *)
(***************************************************************************)
isDebugEnabled(env) == env.DEBUG = <<"true">>

isTransportType(value) == \E i \in 1..Len(SUPPORTED_TRANSPORTS) : SUPPORTED_TRANSPORTS[i] = value

getDefaultTransport(env) ==
  LET configured == toLowerCase(orElse(env.TRANSPORT, <<>>))
  IN IF isTransportType(configured) THEN configured ELSE DEFAULT_TRANSPORT

\* mutant: the header is consulted before the query
resolveTransportHeaderFirst(request, env, pathTransport) ==
  LET fromQuery == toLowerCase(orElse(paramsGet(searchParams(request.query), s_transport), <<>>))
      fromHeader == toLowerCase(orElse(request.headers["x-transport-type"], <<>>))
  IN IF isTransportType(fromHeader) THEN fromHeader
     ELSE IF isTransportType(fromQuery) THEN fromQuery
     ELSE IF pathTransport # <<>> THEN pathTransport[1]
     ELSE getDefaultTransport(env)

resolveTransport(request, env, pathTransport) ==
  LET fromQuery == toLowerCase(orElse(paramsGet(searchParams(request.query), s_transport), <<>>))
      fromHeader == toLowerCase(orElse(request.headers["x-transport-type"], <<>>))
  IN IF isTransportType(fromQuery) THEN fromQuery
     ELSE IF isTransportType(fromHeader) THEN fromHeader
     ELSE IF pathTransport # <<>> THEN pathTransport[1]
     ELSE getDefaultTransport(env)

buildForwardRequest(request, path, query, headers) ==
  LET method == toUpperCase(request.method)
  IN [method |-> method, path |-> path, query |-> query, headers |-> headers,
      body |-> IF method # s_GET /\ method # s_HEAD THEN request.body ELSE <<>>]

rewritePath(request, path) ==
  buildForwardRequest(request, setPathname(path), request.query, request.headers)

RECURSIVE parsePathTransportFrom(_, _)
parsePathTransportFrom(pathname, i) ==
  IF i > Len(SUPPORTED_TRANSPORTS)
  THEN [transport |-> <<>>, forwardedPath |-> pathname]
  ELSE LET transport == SUPPORTED_TRANSPORTS[i]
           prefix == <<"/">> \o transport
       IN IF pathname = prefix
          THEN [transport |-> <<transport>>, forwardedPath |-> <<"/">>]
          ELSE IF startsWith(pathname, prefix \o <<"/">>)
          THEN [transport |-> <<transport>>, forwardedPath |-> sliceFrom(pathname, Len(prefix))]
          ELSE parsePathTransportFrom(pathname, i + 1)

\* mutant: a repeated prefix is removed again
parsePathTransportRepeated(pathname) ==
  LET once == parsePathTransportFrom(pathname, 1)
      twice == parsePathTransportFrom(once.forwardedPath, 1)
  IN IF once.transport # <<>> /\ twice.transport = once.transport THEN twice ELSE once

parsePathTransport(pathname) == parsePathTransportFrom(pathname, 1)

\* mutant: the prefix is stripped whichever signal selected the transport
toForwardedRequestAlways(request, finalTransport, pathTransport, forwardedPath, originalPath) ==
  IF pathTransport # <<>> /\ forwardedPath # originalPath
  THEN rewritePath(request, forwardedPath)
  ELSE request

toForwardedRequest(request, finalTransport, pathTransport, forwardedPath, originalPath) ==
  IF pathTransport # <<>> /\ pathTransport[1] = finalTransport /\ forwardedPath # originalPath
  THEN rewritePath(request, forwardedPath)
  ELSE request

stripRoutingSelectors(request) ==
  LET hasTransportHeader == request.headers["x-transport-type"] # <<>>
      maybeTransportQuery == includes(href(request), s_transportEq)
      parsed == searchParams(request.query)
      deleted == maybeTransportQuery /\ paramsHas(parsed, s_transport)
      query == IF deleted THEN serializeParams(paramsDelete(parsed, s_transport))
               ELSE request.query
      headers == IF hasTransportHeader THEN headersDelete(request.headers, "x-transport-type")
                 ELSE request.headers
      changed == deleted \/ hasTransportHeader
  IN IF ~hasTransportHeader /\ ~maybeTransportQuery THEN request
     ELSE IF ~changed THEN request
     ELSE buildForwardRequest(request, request.path, query, headers)

\* message is the tuple of the parts of the message text
textResponse(status, message) ==
  [status |-> status, message |-> message, webSocket |-> FALSE, source |-> "proxy"]

isUpgradeRequest(request) ==
  LET upgrade == orElse(request.headers["upgrade"], <<>>)
      connection == toLowerCase(orElse(request.headers["connection"], <<>>))
  IN upgrade # <<>> \/ includes(connection, s_upgrade)

isLandingPageRequest(request, pathname) ==
  IF toUpperCase(request.method) # s_GET THEN FALSE
  ELSE IF pathname # <<"/">> /\ pathname # s_index THEN FALSE
  ELSE IF isUpgradeRequest(request) THEN FALSE
  ELSE LET accept == orElse(request.headers["accept"], <<>>)
           isDocument == toLowerCase(orElse(request.headers["sec-fetch-dest"], <<>>)) = s_document
       IN isDocument \/ includes(accept, s_texthtml)

renderLandingPage ==
  [status |-> 200, message |-> <<"landing page">>, webSocket |-> FALSE, source |-> "proxy"]

(***************************************************************************)
(* src/utils/socket.ts: request shaping helpers                            *)
(***************************************************************************)
\* mutant: any Upgrade value counts, for every variant
hasUpgradeRequestAnyValue(request, strictWebSocketUpgrade) ==
  /\ request.headers["connection"] # <<>>
  /\ includes(toLowerCase(request.headers["connection"][1]), s_upgrade)
  /\ orElse(request.headers["upgrade"], <<>>) # <<>>

hasUpgradeRequest(request, strictWebSocketUpgrade) ==
  LET connectionHasUpgrade ==
        IF request.headers["connection"] = <<>> THEN FALSE
        ELSE includes(toLowerCase(request.headers["connection"][1]), s_upgrade)
      upgrade == orElse(request.headers["upgrade"], <<>>)
  IN IF ~connectionHasUpgrade \/ upgrade = <<>> THEN FALSE
     ELSE IF ~strictWebSocketUpgrade THEN TRUE
     ELSE toLowerCase(upgrade) = s_websocket

\* URL.search getter and setter
searchOf(q) == IF q = <<>> THEN <<>> ELSE <<"?">> \o q
setSearch(v) == IF v # <<>> /\ v[1] = "?" THEN Tail(v) ELSE v

\* mutant: an invalid BACKEND_URL falls back to the default origin
parseBackendUrlFallback(request, env) ==
  LET rawBackendUrl == orElse(env.BACKEND_URL, BACKEND_ORIGIN)
  IN <<[origin |-> IF rawBackendUrl.ok THEN rawBackendUrl.origin ELSE BACKEND_ORIGIN.origin,
        path |-> setPathname(request.path),
        query |-> setSearch(searchOf(request.query))]>>

\* absent when new URL(rawBackendUrl) throws
parseBackendUrl(request, env) ==
  LET rawBackendUrl == orElse(env.BACKEND_URL, BACKEND_ORIGIN)
  IN IF ~rawBackendUrl.ok THEN <<>>
     ELSE <<[origin |-> rawBackendUrl.origin,
             path |-> setPathname(request.path),
             query |-> setSearch(searchOf(request.query))]>>

buildBackendPassthroughHeaders(request) == headersDelete(request.headers, "host")

buildBackendUpgradeHeaders(request, upgradeValue) ==
  headersDelete(
    headersSet(headersSet(headersDelete(request.headers, "host"), "connection", s_Upgrade),
               "upgrade", upgradeValue),
    "sec-websocket-extensions")

\* mutant: the body is never forwarded
toPassthroughInitNoBody(request, headers) ==
  [method |-> toUpperCase(request.method), headers |-> headers, body |-> <<>>,
   redirect |-> "manual"]

toPassthroughInit(request, headers) ==
  LET method == toUpperCase(request.method)
  IN IF method = s_GET \/ method = s_HEAD
     THEN [method |-> method, headers |-> headers, body |-> <<>>, redirect |-> "manual"]
     ELSE [method |-> method, headers |-> headers, body |-> request.body, redirect |-> "manual"]

\* mutant: the dial is a POST with a body
upgradeInitPost(headers) ==
  [method |-> s_POST, headers |-> headers, body |-> <<"body">>, redirect |-> "manual"]

upgradeInit(headers) == [method |-> s_GET, headers |-> headers, body |-> <<>>, redirect |-> "manual"]

\* the outbound call fetchWithTimeout(url, init, timeoutMs) issues
backendCall(kind, url, init, timeoutMs) ==
  [kind |-> kind, url |-> url, init |-> init, timeoutMs |-> timeoutMs]

(***************************************************************************)
(* src/transports/xhttp.ts: option parsing and early data                  *)
(***************************************************************************)
MAX_EARLY_DATA_BYTES == 65536
ALLOWED_MODES == {s_auto, s_packetup}
EARLY_DATA_HEADER == "sec-websocket-protocol"

isDigits(s) == s # <<>> /\ \A i \in 1..Len(s) : IndexIn(DigitChars, s[i]) > 0

RECURSIVE digitsValue(_)
digitsValue(s) == IF s = <<>> THEN 0
                  ELSE 10 * digitsValue(SubSeq(s, 1, Len(s) - 1)) + (IndexIn(DigitChars, s[Len(s)]) - 1)

\* Number(raw) for decimal literals: absent for NaN, else the value and
\* whether it is an integer.
Number(raw) ==
  LET neg == raw # <<>> /\ raw[1] = "-"
      body == IF raw # <<>> /\ (raw[1] = "-" \/ raw[1] = "+") THEN Tail(raw) ELSE raw
      dot == FirstIndex(body, ".")
      whole == IF dot = 0 THEN body ELSE SubSeq(body, 1, dot - 1)
      frac == IF dot = 0 THEN <<>> ELSE SubSeq(body, dot + 1, Len(body))
  IN IF raw = <<>> THEN <<[value |-> 0, integer |-> TRUE]>>
     ELSE IF dot = 0
     THEN IF isDigits(body)
          THEN <<[value |-> IF neg THEN 0 - digitsValue(body) ELSE digitsValue(body),
                  integer |-> TRUE]>>
          ELSE <<>>
     ELSE IF (whole = <<>> \/ isDigits(whole)) /\ (frac = <<>> \/ isDigits(frac))
             /\ (whole # <<>> \/ frac # <<>>)
     THEN <<[value |-> IF neg THEN 0 - digitsValue(whole) ELSE digitsValue(whole),
             integer |-> (frac = <<>> \/ digitsValue(frac) = 0)]>>
     ELSE <<>>

\* mutant: no value is rejected, and an absent or invalid ed counts as the
\* maximum
parseEarlyDataHintLenient(query) ==
  LET raw == paramsGet(searchParams(query), s_ed)
      parsed == Number(raw[1])
  IN IF raw = <<>> THEN <<MAX_EARLY_DATA_BYTES>>
     ELSE IF parsed = <<>> \/ ~parsed[1].integer \/ parsed[1].value < 0
     THEN <<MAX_EARLY_DATA_BYTES>>
     ELSE <<Min(parsed[1].value, MAX_EARLY_DATA_BYTES)>>

\* absent when parseEarlyDataHint throws
parseEarlyDataHint(query) ==
  LET raw == paramsGet(searchParams(query), s_ed)
      parsed == Number(raw[1])
  IN IF raw = <<>> THEN <<0>>
     ELSE IF parsed = <<>> \/ ~parsed[1].integer \/ parsed[1].value < 0 THEN <<>>
     ELSE <<Min(parsed[1].value, MAX_EARLY_DATA_BYTES)>>

\* mutant: a query value that is not allowed falls back to the header
parseModeHeaderRescues(query, request) ==
  LET q == paramsGet(searchParams(query), s_mode)
      h == request.headers["x-xhttp-mode"]
      fromQuery == IF q = <<>> \/ toLowerCase(q[1]) \notin ALLOWED_MODES THEN <<>>
                   ELSE <<toLowerCase(q[1])>>
      fromHeader == IF h = <<>> THEN <<>> ELSE <<toLowerCase(h[1])>>
      mode == orElse(fromQuery, orElse(fromHeader, s_auto))
  IN IF mode \in ALLOWED_MODES THEN <<mode>> ELSE <<>>

\* absent when parseMode throws
parseMode(query, request) ==
  LET q == paramsGet(searchParams(query), s_mode)
      h == request.headers["x-xhttp-mode"]
      fromQuery == IF q = <<>> THEN <<>> ELSE <<toLowerCase(q[1])>>
      fromHeader == IF h = <<>> THEN <<>> ELSE <<toLowerCase(h[1])>>
      mode == orElse(fromQuery, orElse(fromHeader, s_auto))
  IN IF mode \in ALLOWED_MODES THEN <<mode>> ELSE <<>>

Base64Chars == <<"A", "B", "C", "D", "E", "F", "G", "H", "I", "J", "K", "L", "M", "N", "O", "P", "Q", "R", "S", "T", "U", "V", "W", "X", "Y", "Z", "a", "b", "c", "d", "e", "f", "g", "h", "i", "j", "k", "l", "m", "n", "o", "p", "q", "r", "s", "t", "u", "v", "w", "x", "y", "z", "0", "1", "2", "3", "4", "5", "6", "7", "8", "9", "+", "/">>

isLikelyBase64UrlToken(value) ==
  /\ Len(value) > 0
  /\ \A i \in 1..Len(value) :
       IndexIn(Base64Chars, value[i]) \in 1..62 \/ value[i] = "_" \/ value[i] = "-"

\* absent when atob throws, else the decoded bytes
decodeBase64UrlToUint8Array(base64Url) ==
  LET normalized == [i \in 1..Len(base64Url) |->
                       IF base64Url[i] = "-" THEN "+"
                       ELSE IF base64Url[i] = "_" THEN "/" ELSE base64Url[i]]
      n == Len(normalized)
      v == [i \in 1..n |-> IndexIn(Base64Chars, normalized[i]) - 1]
      byteAt(k) == LET i == ((8 * k) \div 6) + 1
                       off == (8 * k) % 6
                       two == v[i] * 64 + v[i + 1]
                   IN (two \div (2 ^ (4 - off))) % 256
  IN IF n % 4 = 1 \/ \E i \in 1..n : v[i] < 0 THEN <<>>
     ELSE <<[k \in 1..((6 * n) \div 8) |-> byteAt(k - 1)]>>

RECURSIVE trim(_)
trim(s) == IF s # <<>> /\ s[1] = " " THEN trim(Tail(s))
           ELSE IF s # <<>> /\ s[Len(s)] = " " THEN trim(SubSeq(s, 1, Len(s) - 1))
           ELSE s

\* mutant: the decoded chunk is not measured against maxBytes
parseEarlyDataFromHeaderUnbounded(request, maxBytes) ==
  LET rawHeader == orElse(request.headers[EARLY_DATA_HEADER], <<>>)
      token == trim(split(rawHeader, ",")[1])
      decoded == decodeBase64UrlToUint8Array(token)
  IN IF maxBytes <= 0 THEN <<>>
     ELSE IF rawHeader = <<>> THEN <<>>
     ELSE IF token = <<>> \/ ~isLikelyBase64UrlToken(token) THEN <<>>
     ELSE decoded

\* absent for null, else the decoded chunk
parseEarlyDataFromHeader(request, maxBytes) ==
  LET rawHeader == orElse(request.headers[EARLY_DATA_HEADER], <<>>)
      token == trim(split(rawHeader, ",")[1])
      decoded == decodeBase64UrlToUint8Array(token)
  IN IF maxBytes <= 0 THEN <<>>
     ELSE IF rawHeader = <<>> THEN <<>>
     ELSE IF token = <<>> \/ ~isLikelyBase64UrlToken(token) THEN <<>>
     ELSE IF decoded = <<>> THEN <<>>
     ELSE IF Len(decoded[1]) > maxBytes THEN <<>>
     ELSE decoded

(***************************************************************************)
(* The synchronous first half of each handleUpgrade, up to its first       *)
(* await: it answers locally, or issues the passthrough call, or allocates *)
(* the client-facing pair and issues the upgrade dial.                     *)
(***************************************************************************)
respondLocally(response) == [kind |-> "respond", response |-> response]

\* mutant: the passthrough call under the upgrade budget
passthroughUpgradeBudget(request, backendUrl) ==
  [kind |-> "passthrough",
   call |-> backendCall("passthrough", backendUrl,
                        toPassthroughInit(request, buildBackendPassthroughHeaders(request)),
                        BACKEND_UPGRADE_TIMEOUT_MS)]

passthrough(request, backendUrl) ==
  [kind |-> "passthrough",
   call |-> backendCall("passthrough", backendUrl,
                        toPassthroughInit(request, buildBackendPassthroughHeaders(request)),
                        BACKEND_PASSTHROUGH_TIMEOUT_MS)]

dial(backendUrl, backendHeaders, hintBytes, earlyDataChunk) ==
  [kind |-> "dial",
   call |-> backendCall("upgrade", backendUrl, upgradeInit(backendHeaders),
                        BACKEND_UPGRADE_TIMEOUT_MS),
   earlyDataHint |-> hintBytes,
   earlyDataChunk |-> earlyDataChunk]

handleXhttpBegin(request, env) ==
  LET hasUpgrade == hasUpgradeRequest(request, TRUE)
      hint == parseEarlyDataHint(request.query)
      mode == parseMode(request.query, request)
      hintBytes == IF hasUpgrade THEN hint[1] ELSE 0
      backendUrl == parseBackendUrl(request, env)
      earlyDataChunk == parseEarlyDataFromHeader(request, hintBytes)
      backendHeaders == buildBackendUpgradeHeaders(request, s_websocket)
  IN IF hasUpgrade /\ hint = <<>>
     THEN respondLocally(textResponse(400,
            <<"Invalid early-data hint. The ed query parameter must be a non-negative integer.">>))
     ELSE IF hasUpgrade /\ mode = <<>>
     THEN respondLocally(textResponse(400,
            <<"Invalid xhttp mode. Supported values are auto and packet-up.">>))
     ELSE IF backendUrl = <<>>
     THEN respondLocally(textResponse(500, <<"BACKEND_URL is not a valid URL.">>))
     ELSE IF ~hasUpgrade THEN passthrough(request, backendUrl[1])
     ELSE dial(backendUrl[1],
               IF earlyDataChunk # <<>> THEN headersDelete(backendHeaders, EARLY_DATA_HEADER)
               ELSE backendHeaders,
               hintBytes, earlyDataChunk)

\* mutant: the ws handler without its GET check
handleWsBeginAnyMethod(request, env) ==
  LET hasUpgrade == hasUpgradeRequest(request, TRUE)
      backendUrl == parseBackendUrl(request, env)
  IN IF backendUrl = <<>>
     THEN respondLocally(textResponse(500, <<"BACKEND_URL is not a valid URL.">>))
     ELSE IF ~hasUpgrade THEN passthrough(request, backendUrl[1])
     ELSE dial(backendUrl[1], buildBackendUpgradeHeaders(request, s_websocket), 0, <<>>)

handleWsBegin(request, env) ==
  LET hasUpgrade == hasUpgradeRequest(request, TRUE)
      backendUrl == parseBackendUrl(request, env)
  IN IF backendUrl = <<>>
     THEN respondLocally(textResponse(500, <<"BACKEND_URL is not a valid URL.">>))
     ELSE IF ~hasUpgrade THEN passthrough(request, backendUrl[1])
     ELSE IF toUpperCase(request.method) # s_GET
     THEN respondLocally(textResponse(400, <<"ws upgrade requests must use GET.">>))
     ELSE dial(backendUrl[1], buildBackendUpgradeHeaders(request, s_websocket), 0, <<>>)

handleHttpUpgradeBegin(request, env) ==
  LET hasUpgrade == hasUpgradeRequest(request, FALSE)
      backendUrl == parseBackendUrl(request, env)
  IN IF backendUrl = <<>>
     THEN respondLocally(textResponse(500, <<"BACKEND_URL is not a valid URL.">>))
     ELSE IF ~hasUpgrade THEN passthrough(request, backendUrl[1])
     ELSE IF toUpperCase(request.method) # s_GET
     THEN respondLocally(textResponse(400, <<"httpupgrade upgrade requests must use GET.">>))
     ELSE dial(backendUrl[1],
               buildBackendUpgradeHeaders(request, orElse(request.headers["upgrade"], s_websocket)),
               0, <<>>)

\* HANDLERS[transport]
handlerBegin(transport, request, env) ==
  IF transport = s_xhttp THEN handleXhttpBegin(request, env)
  ELSE IF transport = s_httpupgrade THEN handleHttpUpgradeBegin(request, env)
  ELSE handleWsBegin(request, env)

(***************************************************************************)
(* src/utils/socket.ts: closing                                            *)
(***************************************************************************)
s_ClientClosed == <<"C", "l", "i", "e", "n", "t", " ", "c", "l", "o", "s", "e", "d", " ", "c", "o", "n", "n", "e", "c", "t", "i", "o", "n">>
s_BackendClosed == <<"B", "a", "c", "k", "e", "n", "d", " ", "c", "l", "o", "s", "e", "d", " ", "c", "o", "n", "n", "e", "c", "t", "i", "o", "n">>
s_ClientError == <<"C", "l", "i", "e", "n", "t", " ", "s", "o", "c", "k", "e", "t", " ", "e", "r", "r", "o", "r">>
s_BackendError == <<"B", "a", "c", "k", "e", "n", "d", " ", "s", "o", "c", "k", "e", "t", " ", "e", "r", "r", "o", "r">>
s_RelayFailure == <<"R", "e", "l", "a", "y", " ", "f", "a", "i", "l", "u", "r", "e">>
s_UnableConnect == <<"U", "n", "a", "b", "l", "e", " ", "t", "o", " ", "c", "o", "n", "n", "e", "c", "t", " ", "t", "o", " ", "b", "a", "c", "k", "e", "n", "d">>
s_Rejected == <<"B", "a", "c", "k", "e", "n", "d", " ", "u", "p", "g", "r", "a", "d", "e", " ", "r", "e", "j", "e", "c", "t", "e", "d", " ", "(">>
s_done == <<"d", "o", "n", "e">>

RECURSIVE toDigits(_)
toDigits(n) == IF n < 10 THEN <<DigitChars[n + 1]>>
               ELSE toDigits(n \div 10) \o <<DigitChars[(n % 10) + 1]>>

\* mutant: the reserved codes 1005 and 1006 are passed through
sanitizeCloseCodeRangeOnly(code) ==
  IF code \in Int /\ code >= 1000 /\ code <= 4999 THEN code ELSE 1011

sanitizeCloseCode(code) ==
  IF code \in Int /\ code >= 1000 /\ code <= 4999 /\ code # 1005 /\ code # 1006
  THEN code ELSE 1011

\* The record of one safeClose(socket, code, reason): the arguments of
\* socket.close(normalizedCode, normalizedReason), and whether that call
\* threw so that the bare socket.close() was attempted as well.
safeClose(closes, code, reason, throws) ==
  Append(closes, [code |-> sanitizeCloseCode(code),
                  reason |-> sliceTo(reason, 123),
                  fallback |-> throws])

(***************************************************************************)
(* State                                                                   *)
(***************************************************************************)
Side == {"client", "backend"}
Peer(side) == IF side = "client" THEN "backend" ELSE "client"

VARIABLES
  req,          \* the inbound request
  env,          \* the configuration (TRANSPORT, BACKEND_URL, DEBUG)
  pc,           \* position of the request: fetch, handler, await_pass, await_dial, done
  transport,    \* the transport fetch selected, absent before it did
  fwdReq,       \* the request fetch handed to the transport handler
  resp,         \* the response returned to the caller, absent until returned
  calls,        \* the outbound backend calls issued, in order
  earlyData,    \* xhttp: the early-data chunk extracted before the dial
  earlyDataHint,\* xhttp: the effective early-data hint of an upgrade request
  accepted,     \* per endpoint: accept() was called (client = workerSocket)
  bodyCancelled,\* the backend response body was cancelled
  closeCalls,   \* per endpoint: the safeClose calls made on it
  sent,         \* per endpoint: the frames passed to its send() that did not throw
  trace,        \* the handler's side effects in program order
  log,          \* the debug log lines written
  bridged,      \* bridgeSockets has wired its listeners
  closed,       \* bridgeSockets: the closed flag
  recvd,        \* per endpoint: the message events delivered on it
  pending,      \* Blob payloads whose arrayBuffer() has not settled
  relayErrors,  \* the onRelayError invocations (their direction)
  evClosed,     \* per endpoint: its close event was delivered
  errCount,     \* per endpoint: the error events delivered
  closeBothRuns,\* how often closeBoth passed its guard
  cause,        \* the event whose handler passed the guard of closeBoth
  settled,      \* how the backend call settled, absent until it did
  timer         \* fetchWithTimeout: the deadline timer (none, armed, fired, cleared)

bridgeVars == <<closed, recvd, pending, relayErrors, evClosed, errCount, closeBothRuns,
                cause>>
vars == <<req, env, pc, transport, fwdReq, resp, calls, earlyData, earlyDataHint, earlyDataHint, accepted,
          bodyCancelled,
          closeCalls, sent, trace, log, bridged, closed, recvd, pending, relayErrors,
          evClosed, errCount, closeBothRuns, cause, settled, timer>>

\* the state of a request that fetch has not started on
Fresh ==
  /\ pc = "fetch"
  /\ transport = <<>>
  /\ fwdReq = <<>>
  /\ resp = <<>>
  /\ calls = <<>>
  /\ earlyData = <<>>
  /\ earlyDataHint = <<>>
  /\ accepted = [s \in Side |-> FALSE]
  /\ bodyCancelled = FALSE
  /\ closeCalls = [s \in Side |-> <<>>]
  /\ sent = [s \in Side |-> <<>>]
  /\ trace = <<>>
  /\ log = <<>>
  /\ bridged = FALSE
  /\ closed = FALSE
  /\ recvd = [s \in Side |-> <<>>]
  /\ pending = {}
  /\ relayErrors = <<>>
  /\ evClosed = [s \in Side |-> FALSE]
  /\ errCount = [s \in Side |-> 0]
  /\ closeBothRuns = 0
  /\ cause = <<>>
  /\ settled = <<>>
  /\ timer = "none"

(***************************************************************************)
(* src/index.ts: fetch, up to the call of the transport handler            *)
(***************************************************************************)
\* mutant: with debugging on, the routing selectors stay on the request
fetchBeginDebugKeepsSelectors(request, e) ==
  LET pathname == request.path
      parsedPath == parsePathTransport(pathname)
      selected == resolveTransport(request, e, parsedPath.transport)
      transportRoutedRequest ==
        toForwardedRequest(request, selected, parsedPath.transport,
                           parsedPath.forwardedPath, pathname)
      forwardedRequest == IF isDebugEnabled(e) THEN transportRoutedRequest
                          ELSE stripRoutingSelectors(transportRoutedRequest)
  IN IF isLandingPageRequest(request, pathname)
     THEN [kind |-> "landing", transport |-> <<>>, forwardedRequest |-> <<>>]
     ELSE [kind |-> "handler", transport |-> <<selected>>,
           forwardedRequest |-> <<forwardedRequest>>]

\* what fetch computes before it calls the handler: the landing page, or
\* the selected transport and the request forwarded to its handler
fetchBegin(request, e) ==
  LET pathname == request.path
      parsedPath == parsePathTransport(pathname)
      selected == resolveTransport(request, e, parsedPath.transport)
      transportRoutedRequest ==
        toForwardedRequest(request, selected, parsedPath.transport,
                           parsedPath.forwardedPath, pathname)
      forwardedRequest == stripRoutingSelectors(transportRoutedRequest)
  IN IF isLandingPageRequest(request, pathname)
     THEN [kind |-> "landing", transport |-> <<>>, forwardedRequest |-> <<>>]
     ELSE [kind |-> "handler", transport |-> <<selected>>,
           forwardedRequest |-> <<forwardedRequest>>]

Fetch ==
  /\ pc = "fetch"
  /\ LET out == fetchBegin(req, env)
     IN IF out.kind = "landing"
        THEN /\ resp' = <<renderLandingPage>>
             /\ pc' = "done"
             /\ UNCHANGED <<transport, fwdReq, log>>
        ELSE /\ transport' = out.transport
             /\ fwdReq' = out.forwardedRequest
             /\ pc' = "handler"
             /\ log' = IF isDebugEnabled(env) THEN Append(log, "routing request") ELSE log
             /\ UNCHANGED resp
  /\ UNCHANGED <<req, env, calls, earlyData, earlyDataHint, accepted, bodyCancelled, closeCalls, sent,
                 trace, bridged, settled, timer>>
  /\ UNCHANGED bridgeVars

(***************************************************************************)
(* handleUpgrade of the selected transport, up to its first await          *)
(***************************************************************************)
\* mutant: the dial is issued before the client-facing pair is allocated
HandleBeginDialFirst ==
  /\ pc = "handler"
  /\ LET out == handlerBegin(transport[1], fwdReq[1], env)
         debug == isDebugEnabled(env)
     IN IF out.kind = "respond"
        THEN /\ resp' = <<out.response>>
             /\ pc' = "done"
             /\ UNCHANGED <<calls, earlyData, earlyDataHint, accepted, trace, log, timer>>
        ELSE IF out.kind = "passthrough"
        THEN /\ calls' = Append(calls, out.call)
             /\ trace' = Append(trace, "passthrough")
             /\ log' = IF debug THEN Append(log, "forwarding non-upgrade request") ELSE log
             /\ pc' = "await_pass"
             /\ timer' = "armed"
             /\ UNCHANGED <<resp, earlyData, earlyDataHint, accepted>>
        ELSE /\ accepted' = [accepted EXCEPT !["client"] = TRUE]
             /\ earlyData' = out.earlyDataChunk
             /\ earlyDataHint' = <<out.earlyDataHint>>
             /\ timer' = "armed"
             /\ calls' = Append(calls, out.call)
             /\ trace' = trace \o <<"dial", "pair", "accept_client">>
             /\ log' = IF debug THEN Append(log, "dialing backend") ELSE log
             /\ pc' = "await_dial"
             /\ UNCHANGED resp
  /\ UNCHANGED <<req, env, transport, fwdReq, bodyCancelled, closeCalls, sent, bridged,
                 settled>>
  /\ UNCHANGED bridgeVars

HandleBegin ==
  /\ pc = "handler"
  /\ LET out == handlerBegin(transport[1], fwdReq[1], env)
         debug == isDebugEnabled(env)
     IN IF out.kind = "respond"
        THEN /\ resp' = <<out.response>>
             /\ pc' = "done"
             /\ UNCHANGED <<calls, earlyData, earlyDataHint, accepted, trace, log, timer>>
        ELSE IF out.kind = "passthrough"
        THEN /\ calls' = Append(calls, out.call)
             /\ trace' = Append(trace, "passthrough")
             /\ log' = IF debug THEN Append(log, "forwarding non-upgrade request") ELSE log
             /\ pc' = "await_pass"
             /\ timer' = "armed"
             /\ UNCHANGED <<resp, earlyData, earlyDataHint, accepted>>
        ELSE /\ accepted' = [accepted EXCEPT !["client"] = TRUE]
             /\ earlyData' = out.earlyDataChunk
             /\ earlyDataHint' = <<out.earlyDataHint>>
             /\ timer' = "armed"
             /\ calls' = Append(calls, out.call)
             /\ trace' = trace \o <<"pair", "accept_client", "dial">>
             /\ log' = IF debug THEN Append(log, "dialing backend") ELSE log
             /\ pc' = "await_dial"
             /\ UNCHANGED resp
  /\ UNCHANGED <<req, env, transport, fwdReq, bodyCancelled, closeCalls, sent, bridged,
                 settled>>
  /\ UNCHANGED bridgeVars

(***************************************************************************)
(* The passthrough call settles: src/transports/*.ts, the try/catch        *)
(* around the passthrough fetchWithTimeout.                                *)
(***************************************************************************)
BackendStatuses == {101, 200, 302, 502}

backendResponse(status) ==
  [status |-> status, message |-> <<"backend response">>, webSocket |-> FALSE,
   source |-> "backend"]

\* mutant: a 3xx answer to the passthrough call is chased with a second call
PassthroughResolvedChasingRedirect ==
  /\ pc = "await_pass"
  /\ timer = "armed"
  /\ \E status \in BackendStatuses :
       IF status \in 300..399
       THEN /\ calls' = Append(calls, calls[1])
            /\ UNCHANGED <<resp, settled, pc, timer>>
       ELSE /\ resp' = <<backendResponse(status)>>
            /\ settled' = <<[how |-> "response", status |-> status, webSocket |-> FALSE,
                             body |-> TRUE]>>
            /\ pc' = "done"
            /\ timer' = "cleared"
            /\ UNCHANGED calls
  /\ UNCHANGED <<req, env, transport, fwdReq, earlyData, earlyDataHint, accepted,
                 bodyCancelled,
                 closeCalls, sent, trace, log, bridged>>
  /\ UNCHANGED bridgeVars

PassthroughResolved ==
  /\ pc = "await_pass"
  /\ timer = "armed"
  /\ timer' = "cleared"
  /\ \E status \in BackendStatuses :
       /\ resp' = <<backendResponse(status)>>
       /\ settled' = <<[how |-> "response", status |-> status, webSocket |-> FALSE,
                        body |-> TRUE]>>
  /\ pc' = "done"
  /\ UNCHANGED <<req, env, transport, fwdReq, calls, earlyData, earlyDataHint, accepted,
                 bodyCancelled,
                 closeCalls, sent, trace, log, bridged>>
  /\ UNCHANGED bridgeVars

\* fetchWithTimeout: the deadline timer of the pending call fires and aborts it
DeadlineExpired ==
  /\ pc \in {"await_pass", "await_dial"}
  /\ timer = "armed"
  /\ timer' = "fired"
  /\ UNCHANGED <<req, env, pc, transport, fwdReq, resp, calls, earlyData, earlyDataHint,
                 accepted, bodyCancelled, closeCalls, sent, trace, log, bridged, settled>>
  /\ UNCHANGED bridgeVars

\* mutant: every rejection of the passthrough call is reported as a timeout
PassthroughRejectedAsTimeout ==
  /\ pc = "await_pass"
  /\ timer' = "cleared"
  /\ settled' = <<[how |-> IF timer = "fired" THEN "abort" ELSE "error"]>>
  /\ resp' = <<textResponse(502, <<"Backend request timed out.">>)>>
  /\ pc' = "done"
  /\ UNCHANGED <<req, env, transport, fwdReq, calls, earlyData, earlyDataHint, accepted,
                 bodyCancelled, closeCalls, sent, trace, log, bridged>>
  /\ UNCHANGED bridgeVars

\* the call rejected: with the AbortError of the deadline timer when the
\* timer fired (isAbort), with another error otherwise; the finally clause
\* clears the timer
PassthroughRejected ==
  /\ pc = "await_pass"
  /\ timer' = "cleared"
  /\ LET isAbort == timer = "fired" IN
       /\ settled' = <<[how |-> IF isAbort THEN "abort" ELSE "error"]>>
       /\ resp' = IF isAbort THEN <<textResponse(502, <<"Backend request timed out.">>)>>
                  ELSE <<textResponse(502, <<"Unable to connect to backend service.">>)>>
       /\ log' = IF ~isAbort /\ isDebugEnabled(env)
                 THEN Append(log, "backend passthrough error") ELSE log
  /\ pc' = "done"
  /\ UNCHANGED <<req, env, transport, fwdReq, calls, earlyData, earlyDataHint, accepted,
                 bodyCancelled,
                 closeCalls, sent, trace, bridged>>
  /\ UNCHANGED bridgeVars

(***************************************************************************)
(* The upgrade dial settles: the try/catch around the dial.                *)
(***************************************************************************)
earlyFrame(chunk) == [kind |-> "early", data |-> chunk, type |-> "ArrayBuffer"]

\* mutant: a 101 without a stream handle is taken for a successful upgrade
upgradeAcceptedStatusOnly(status, hasWebSocket) == status = 101

\* the negation of the test `status !== 101 || !backendResponse.webSocket`
upgradeAccepted(status, hasWebSocket) == ~(status # 101 \/ ~hasWebSocket)

\* the dial resolved with a response of this status, with or without a
\* webSocket and a body
DialResolved ==
  /\ pc = "await_dial"
  /\ timer = "armed"
  /\ timer' = "cleared"
  /\ \E status \in BackendStatuses, hasWebSocket \in BOOLEAN, hasBody \in BOOLEAN,
        closeThrows \in BOOLEAN :
     /\ settled' = <<[how |-> "response", status |-> status, webSocket |-> hasWebSocket,
                      body |-> hasBody]>>
     /\ IF ~upgradeAccepted(status, hasWebSocket)
       THEN /\ bodyCancelled' = hasBody
            /\ closeCalls' = [closeCalls EXCEPT !["client"] =
                 safeClose(@, 1011, s_Rejected \o toDigits(status) \o <<")">>, closeThrows)]
            /\ resp' = <<textResponse(502,
                  <<"Backend failed to upgrade connection (status ", status, ").">>)>>
            /\ trace' = trace \o (IF hasBody THEN <<"cancel_body">> ELSE <<>>)
                              \o <<"close_client", "respond">>
            /\ UNCHANGED <<accepted, sent, bridged>>
       ELSE /\ closeThrows = FALSE
            /\ hasBody = FALSE
            /\ accepted' = [accepted EXCEPT !["backend"] = TRUE]
            /\ sent' = IF earlyData # <<>> /\ Len(earlyData[1]) > 0
                       THEN [sent EXCEPT !["backend"] = Append(@, earlyFrame(earlyData[1]))]
                       ELSE sent
            /\ bridged' = TRUE
            /\ resp' = <<[status |-> 101, message |-> <<>>, webSocket |-> TRUE,
                          source |-> "proxy"]>>
            /\ trace' = trace \o <<"accept_backend">>
                              \o (IF earlyData # <<>> /\ Len(earlyData[1]) > 0
                                  THEN <<"send_early">> ELSE <<>>)
                              \o <<"bridge", "respond">>
            /\ UNCHANGED <<bodyCancelled, closeCalls>>
  /\ pc' = "done"
  /\ UNCHANGED <<req, env, transport, fwdReq, calls, earlyData, earlyDataHint, log>>
  /\ UNCHANGED bridgeVars

\* mutant: a failed dial leaves the client-facing endpoint open
DialRejectedNoClose ==
  /\ pc = "await_dial"
  /\ timer' = "cleared"
  /\ \E closeThrows \in BOOLEAN : LET isAbort == timer = "fired" IN
       /\ settled' = <<[how |-> IF isAbort THEN "abort" ELSE "error"]>>
       /\ closeThrows = FALSE
       /\ UNCHANGED closeCalls
       /\ resp' = IF isAbort THEN <<textResponse(502, <<"Backend upgrade timed out.">>)>>
                  ELSE <<textResponse(502, <<"Unable to connect to backend service.">>)>>
       /\ log' = IF ~isAbort /\ isDebugEnabled(env)
                 THEN Append(log, "backend connection error") ELSE log
  /\ trace' = trace \o <<"respond">>
  /\ pc' = "done"
  /\ UNCHANGED <<req, env, transport, fwdReq, calls, earlyData, earlyDataHint, accepted,
                 bodyCancelled,
                 sent, bridged>>
  /\ UNCHANGED bridgeVars

DialRejected ==
  /\ pc = "await_dial"
  /\ timer' = "cleared"
  /\ \E closeThrows \in BOOLEAN : LET isAbort == timer = "fired" IN
       /\ settled' = <<[how |-> IF isAbort THEN "abort" ELSE "error"]>>
       /\ closeCalls' = [closeCalls EXCEPT !["client"] =
            safeClose(@, 1011, s_UnableConnect, closeThrows)]
       /\ resp' = IF isAbort THEN <<textResponse(502, <<"Backend upgrade timed out.">>)>>
                  ELSE <<textResponse(502, <<"Unable to connect to backend service.">>)>>
       /\ log' = IF ~isAbort /\ isDebugEnabled(env)
                 THEN Append(log, "backend connection error") ELSE log
  /\ trace' = trace \o <<"close_client", "respond">>
  /\ pc' = "done"
  /\ UNCHANGED <<req, env, transport, fwdReq, calls, earlyData, earlyDataHint, accepted,
                 bodyCancelled,
                 sent, bridged>>
  /\ UNCHANGED bridgeVars

\* The dial resolved with 101 and a stream handle, and a statement of the
\* success branch threw inside the try block: backendSocket.accept(), the
\* early-data send, or bridgeSockets.  The catch closes the worker side of
\* the client pair and answers 502; the thrown error is not an AbortError.
DialResolvedThrows ==
  /\ pc = "await_dial"
  /\ timer = "armed"
  /\ timer' = "cleared"
  /\ settled' = <<[how |-> "response", status |-> 101, webSocket |-> TRUE, body |-> FALSE]>>
  /\ \E thrower \in {"accept_backend", "send_early", "bridge"}, closeThrows \in BOOLEAN :
       LET hasEarly == earlyData # <<>> /\ Len(earlyData[1]) > 0
       IN /\ thrower = "send_early" => hasEarly
          /\ accepted' = [accepted EXCEPT !["backend"] = thrower # "accept_backend"]
          /\ sent' = IF thrower = "bridge" /\ hasEarly
                     THEN [sent EXCEPT !["backend"] = Append(@, earlyFrame(earlyData[1]))]
                     ELSE sent
          /\ closeCalls' = [closeCalls EXCEPT !["client"] =
               safeClose(@, 1011, s_UnableConnect, closeThrows)]
          /\ trace' = trace
                        \o (IF thrower # "accept_backend" THEN <<"accept_backend">> ELSE <<>>)
                        \o (IF thrower = "bridge" /\ hasEarly THEN <<"send_early">> ELSE <<>>)
                        \o <<"throw", "close_client", "respond">>
  /\ resp' = <<textResponse(502, <<"Unable to connect to backend service.">>)>>
  /\ log' = IF isDebugEnabled(env) THEN Append(log, "backend connection error") ELSE log
  /\ pc' = "done"
  /\ UNCHANGED <<req, env, transport, fwdReq, calls, earlyData, earlyDataHint,
                 bodyCancelled, bridged>>
  /\ UNCHANGED bridgeVars

(***************************************************************************)
(* src/utils/socket.ts: bridgeSockets.  The listeners run one at a time;   *)
(* each action below is one listener (or one settled arrayBuffer()         *)
(* promise) running to completion.                                         *)
(***************************************************************************)
PayloadTypes == {"string", "ArrayBuffer", "Blob"}
\* the close events the peers may produce: code and reason
CloseEvents == {[code |-> 1000, reason |-> <<>>], [code |-> 1005, reason |-> <<>>],
                [code |-> 1006, reason |-> <<>>], [code |-> 4001, reason |-> s_done],
                [code |-> 999, reason |-> s_done], [code |-> 5000, reason |-> <<>>]}

direction(side) == IF side = "client" THEN "client->backend" ELSE "backend->client"

\* one destination.send(payload): what was passed and whether send threw
sendCall(msg, type, threw) ==
  [kind |-> "relay", id |-> msg.id, src |-> msg.src, type |-> type, threw |-> threw]

\* mutant: closeBoth without its closed guard
closeBothUnguarded(code, reason, throwsClient, throwsBackend, why) ==
  /\ closed' = TRUE
  /\ cause' = <<why>>
  /\ closeCalls' = [s \in Side |->
       safeClose(closeCalls[s], code, reason,
                 IF s = "client" THEN throwsClient ELSE throwsBackend)]
  /\ closeBothRuns' = closeBothRuns + 1

\* why: the event that called closeBoth (kept in cause when the guard passes)
closeBoth(code, reason, throwsClient, throwsBackend, why) ==
  IF closed
  THEN /\ throwsClient = FALSE /\ throwsBackend = FALSE
       /\ UNCHANGED <<closed, closeCalls, closeBothRuns, cause>>
  ELSE /\ closed' = TRUE
       /\ cause' = <<why>>
       /\ closeCalls' = [s \in Side |->
            safeClose(closeCalls[s], code, reason,
                      IF s = "client" THEN throwsClient ELSE throwsBackend)]
       /\ closeBothRuns' = closeBothRuns + 1

\* mutant: a forwarding failure closes both endpoints without onRelayError
onForwardFailureSilent(msg, throwsClient, throwsBackend) ==
  /\ UNCHANGED relayErrors
  /\ closeBoth(1011, s_RelayFailure, throwsClient, throwsBackend,
               [kind |-> "relay", side |-> msg.src, code |-> 1011, reason |-> <<>>])

onForwardFailure(msg, throwsClient, throwsBackend) ==
  /\ relayErrors' = Append(relayErrors, [direction |-> direction(msg.src), id |-> msg.id])
  /\ closeBoth(1011, s_RelayFailure, throwsClient, throwsBackend,
               [kind |-> "relay", side |-> msg.src, code |-> 1011, reason |-> <<>>])

\* the try/catch around destination.send
trySend(msg, type, sendThrows, throwsClient, throwsBackend) ==
  /\ sent' = [sent EXCEPT ![Peer(msg.src)] = Append(@, sendCall(msg, type, sendThrows))]
  /\ IF sendThrows
     THEN onForwardFailure(msg, throwsClient, throwsBackend)
     ELSE /\ throwsClient = FALSE /\ throwsBackend = FALSE
          /\ UNCHANGED <<relayErrors, closed, closeCalls, closeBothRuns, cause>>

\* a message event on the endpoint `side`: forward(peer, event.data, direction)
OnMessage(side) ==
  /\ bridged
  /\ ~evClosed[side]
  /\ Len(recvd["client"]) + Len(recvd["backend"]) < MaxMsgs
  /\ \E type \in PayloadTypes, sendThrows \in BOOLEAN, throwsClient \in BOOLEAN,
        throwsBackend \in BOOLEAN :
       LET msg == [id |-> Len(recvd[side]) + 1, src |-> side, type |-> type,
                   late |-> closed]
       IN /\ recvd' = [recvd EXCEPT ![side] = Append(@, msg)]
          /\ IF type = "Blob"
             THEN /\ pending' = pending \cup {msg}
                  /\ sendThrows = FALSE /\ throwsClient = FALSE /\ throwsBackend = FALSE
                  /\ UNCHANGED <<sent, relayErrors, closed, closeCalls, closeBothRuns, cause>>
             ELSE /\ trySend(msg, type, sendThrows, throwsClient, throwsBackend)
                  /\ UNCHANGED pending
  /\ UNCHANGED <<req, env, pc, transport, fwdReq, resp, calls, earlyData, earlyDataHint,
                 accepted,
                 settled, timer, bodyCancelled, trace, log, bridged, evClosed, errCount>>

\* payload.arrayBuffer() resolved: the .then callback
BlobResolved ==
  /\ \E msg \in pending, sendThrows \in BOOLEAN, throwsClient \in BOOLEAN,
        throwsBackend \in BOOLEAN :
       /\ pending' = pending \ {msg}
       /\ IF closed
          THEN /\ sendThrows = FALSE /\ throwsClient = FALSE /\ throwsBackend = FALSE
               /\ UNCHANGED <<sent, relayErrors, closed, closeCalls, closeBothRuns, cause>>
          ELSE trySend(msg, "ArrayBuffer", sendThrows, throwsClient, throwsBackend)
  /\ UNCHANGED <<req, env, pc, transport, fwdReq, resp, calls, earlyData, earlyDataHint,
                 accepted,
                 settled, timer, bodyCancelled, trace, log, bridged, recvd, evClosed, errCount>>

\* payload.arrayBuffer() rejected: the .catch callback
BlobRejected ==
  /\ \E msg \in pending, throwsClient \in BOOLEAN, throwsBackend \in BOOLEAN :
       /\ pending' = pending \ {msg}
       /\ onForwardFailure(msg, throwsClient, throwsBackend)
  /\ UNCHANGED <<req, env, pc, transport, fwdReq, resp, calls, earlyData, earlyDataHint,
                 accepted,
                 settled, timer, bodyCancelled, sent, trace, log, bridged, recvd, evClosed, errCount>>

\* a close event on the endpoint `side`
OnClose(side) ==
  /\ bridged
  /\ ~evClosed[side]
  /\ \E event \in CloseEvents, throwsClient \in BOOLEAN, throwsBackend \in BOOLEAN :
       closeBoth(event.code,
                 IF event.reason # <<>> THEN event.reason
                 ELSE IF side = "client" THEN s_ClientClosed ELSE s_BackendClosed,
                 throwsClient, throwsBackend,
                 [kind |-> "close", side |-> side, code |-> event.code,
                  reason |-> event.reason])
  /\ evClosed' = [evClosed EXCEPT ![side] = TRUE]
  /\ UNCHANGED <<req, env, pc, transport, fwdReq, resp, calls, earlyData, earlyDataHint,
                 accepted,
                 settled, timer, bodyCancelled, sent, trace, log, bridged, recvd, pending, relayErrors,
                 errCount>>

\* an error event on the endpoint `side`
OnError(side) ==
  /\ bridged
  /\ ~evClosed[side]
  /\ errCount[side] < MaxErrors
  /\ \E throwsClient \in BOOLEAN, throwsBackend \in BOOLEAN :
       closeBoth(1011, IF side = "client" THEN s_ClientError ELSE s_BackendError,
                 throwsClient, throwsBackend,
                 [kind |-> "error", side |-> side, code |-> 1011, reason |-> <<>>])
  /\ errCount' = [errCount EXCEPT ![side] = @ + 1]
  /\ UNCHANGED <<req, env, pc, transport, fwdReq, resp, calls, earlyData, earlyDataHint,
                 accepted,
                 settled, timer, bodyCancelled, sent, trace, log, bridged, recvd, pending, relayErrors,
                 evClosed>>

(***************************************************************************)
(* The explored requests and configurations.                               *)
(***************************************************************************)
\* the Headers holding exactly the entries of h
headersOf(h) == [n \in HeaderNames |-> IF n \in DOMAIN h THEN <<h[n]>> ELSE <<>>]

RECURSIVE pathOf(_)
pathOf(segs) == IF segs = <<>> THEN <<>> ELSE <<"/">> \o segs[1] \o pathOf(Tail(segs))

seqsUpTo(S, n) == UNION {[1..k -> S] : k \in 0..n}

customBackend == [ok |-> TRUE, origin |-> "https://backend.example", path |-> <<"/", "b">>,
                  query |-> <<"k", "=", "v">>]
invalidBackend == [ok |-> FALSE, origin |-> "", path |-> <<>>, query |-> <<>>]

RouteSegs == {s_ws, s_httpupgrade, s_wsx}
RoutePaths == {<<"/">>, s_index, pathOf(<<s_WS, s_x>>)}
              \cup {pathOf(segs) : segs \in seqsUpTo(RouteSegs, MaxSegs) \ {<<>>}}
              \cup {pathOf(segs) \o <<"/">> : segs \in seqsUpTo(RouteSegs, MaxSegs) \ {<<>>}}
RouteTokens == {q_tWS, q_tbogus, q_tbare, q_tenc, q_mode}
RouteQueries == {join(toks, "&") : toks \in seqsUpTo(RouteTokens, MaxParams)}
RouteSelectorHeaders == {<<>>, <<s_XHTTP>>, <<s_bogus>>}
RouteConfigured == {<<>>, <<s_ws>>, <<s_bogus>>}
RouteShapes == {
  [method |-> s_GET, headers |-> headersOf([accept |-> s_texthtml]), body |-> <<>>],
  [method |-> s_POST, headers |-> headersOf([host |-> s_x]), body |-> <<"body">>],
  [method |-> s_GET,
   headers |-> headersOf([connection |-> s_Upgrade, upgrade |-> s_websocket, host |-> s_x]),
   body |-> <<>>]}

InitRoute ==
  /\ \E shape \in RouteShapes, path \in RoutePaths, query \in RouteQueries,
        selector \in RouteSelectorHeaders :
       req = [method |-> shape.method, path |-> path, query |-> query,
              headers |-> [shape.headers EXCEPT !["x-transport-type"] = selector],
              body |-> shape.body]
  /\ \E configured \in RouteConfigured, backend \in {<<>>, <<customBackend>>} :
       env = [TRANSPORT |-> configured, BACKEND_URL |-> backend, DEBUG |-> <<>>]
  /\ Fresh

NextRoute == Fetch \/ HandleBegin

SpecRoute == InitRoute /\ [][NextRoute]_vars

(***************************************************************************)
(* Requests that exercise the handlers: each transport, with and without   *)
(* the upgrade signal, and every way the backend call can settle.          *)
(***************************************************************************)
s_AQID == <<"A", "Q", "I", "D">>
q_ed2 == <<"e", "d", "=", "2">>
q_edNeg == <<"e", "d", "=", "-", "1">>
q_modeBogus == <<"m", "o", "d", "e", "=", "b", "o", "g", "u", "s">>
\* ed values: zero, above the maximum, fractional, not a number, empty
EdQueries == {<<"e", "d", "=", "0">>, <<"e", "d", "=", "7", "0", "0", "0", "0">>,
              <<"e", "d", "=", "1", ".", "5">>, <<"e", "d", "=", "x">>, <<"e", "d", "=">>}
\* sec-websocket-protocol values: two bytes then a second token, a token
\* atob rejects, a token that is not URL-safe base64
EarlyTokens == {<<"A", "Q", "I", ",", " ", "x">>, <<"A">>, <<"A", "+">>}

UpgradePaths == {<<"/">>, pathOf(<<s_ws, s_x>>), pathOf(<<s_httpupgrade, s_x>>)}
UpgradeMethods == {s_GET, s_POST}
UpgradeConnections == {<<>>, <<s_Upgrade>>, <<s_keepalive>>}
\* Upgrade: absent, empty, websocket in two spellings, another protocol
UpgradeUpgrades == {<<>>, <<<<>>>>, <<s_websocket>>, <<s_WebSocket>>, <<s_h2c>>}
s_deflate == <<"d", "e", "f", "l", "a", "t", "e">>
UpgradeQueries == {<<>>, q_ed2, q_edNeg, q_modeBogus} \cup EdQueries
UpgradeProtocols == {<<>>, <<s_AQID>>} \cup {<<t>> : t \in EarlyTokens}
UpgradeSelectors == {<<>>, <<s_ws>>}
UpgradeBackends == {<<>>, <<invalidBackend>>}
UpgradeDebug == {<<>>, <<"true">>}

Init ==
  /\ \E method \in UpgradeMethods, path \in UpgradePaths, query \in UpgradeQueries,
        connection \in UpgradeConnections, upgrade \in UpgradeUpgrades,
        protocol \in UpgradeProtocols, selector \in UpgradeSelectors :
       req = [method |-> method, path |-> path, query |-> query,
              headers |-> [headersOf([host |-> s_x]) EXCEPT
                             !["connection"] = connection,
                             !["upgrade"] = upgrade,
                             !["sec-websocket-extensions"] = <<s_deflate>>,
                             !["sec-websocket-protocol"] = protocol,
                             !["x-transport-type"] = selector],
              body |-> IF method = s_POST THEN <<"body">> ELSE <<>>]
  /\ \E backend \in UpgradeBackends, debug \in UpgradeDebug :
       env = [TRANSPORT |-> <<>>, BACKEND_URL |-> backend, DEBUG |-> debug]
  /\ Fresh

Next ==
  \/ Fetch
  \/ HandleBegin
  \/ PassthroughResolved
  \/ PassthroughRejected
  \/ DialResolved
  \/ DialRejected
  \/ DeadlineExpired

Spec == Init /\ [][Next]_vars

\* The runtime runs a started handler on, and a pending fetchWithTimeout
\* settles: the call resolves or rejects, or its timer fires and aborts it.
\* Checked from requests of each transport, with and without the upgrade
\* signal, with and without Accept: text/html (the landing page), under a
\* valid and an invalid backend configuration.
InitLive ==
  /\ \E method \in UpgradeMethods, path \in UpgradePaths, query \in {<<>>, q_edNeg},
        connection \in {<<>>, <<s_Upgrade>>}, accept \in {<<>>, <<s_texthtml>>} :
       req = [method |-> method, path |-> path, query |-> query,
              headers |-> [headersOf([host |-> s_x]) EXCEPT
                             !["connection"] = connection,
                             !["upgrade"] = IF connection = <<>> THEN <<>>
                                            ELSE <<s_websocket>>,
                             !["accept"] = accept],
              body |-> IF method = s_POST THEN <<"body">> ELSE <<>>]
  /\ \E backend \in UpgradeBackends :
       env = [TRANSPORT |-> <<>>, BACKEND_URL |-> backend, DEBUG |-> <<>>]
  /\ Fresh

SpecLive == InitLive /\ [][Next]_vars /\ WF_vars(Next)

\* xhttp requests whose mode comes from the query, from the x-xhttp-mode
\* header, from both or from neither: allowed and unknown values, in upper
\* and lower case, and the empty query value
ModeQueries == {<<>>, q_modeBogus, <<"m", "o", "d", "e", "=">>,
                <<"m", "o", "d", "e", "=", "A", "U", "T", "O">>,
                <<"m", "o", "d", "e", "=", "p", "a", "c", "k", "e", "t", "-", "u", "p">>,
                q_edNeg}
ModeHeaders == {<<>>, <<s_auto>>, <<<<"P", "a", "c", "k", "e", "t", "-", "U", "P">>>>,
                <<<<"b", "o", "g", "u", "s">>>>}

InitMode ==
  /\ \E method \in UpgradeMethods, query \in ModeQueries, header \in ModeHeaders,
        connection \in {<<>>, <<s_Upgrade>>} :
       req = [method |-> method, path |-> <<"/">>, query |-> query,
              headers |-> [headersOf([host |-> s_x, upgrade |-> s_websocket]) EXCEPT
                             !["connection"] = connection,
                             !["x-xhttp-mode"] = header],
              body |-> IF method = s_POST THEN <<"body">> ELSE <<>>]
  /\ \E backend \in UpgradeBackends :
       env = [TRANSPORT |-> <<>>, BACKEND_URL |-> backend, DEBUG |-> <<>>]
  /\ Fresh

SpecMode == InitMode /\ [][Next]_vars

\* The handlers with the faults their catch clause is there for: a statement
\* of the success branch may throw after the dial resolved.
NextFault ==
  \/ Next
  \/ DialResolvedThrows

SpecFault == Init /\ [][NextFault]_vars

(***************************************************************************)
(* A bridged session: the state in which handleUpgrade returned 101 for    *)
(* GET / with the upgrade signal under the default configuration.          *)
(***************************************************************************)
bridgedRequest ==
  [method |-> s_GET, path |-> <<"/">>, query |-> <<>>,
   headers |-> headersOf([host |-> s_x, connection |-> s_Upgrade, upgrade |-> s_websocket]),
   body |-> <<>>]
defaultEnv == [TRANSPORT |-> <<>>, BACKEND_URL |-> <<>>, DEBUG |-> <<>>]

InitBridge ==
  /\ req = bridgedRequest
  /\ env = defaultEnv
  /\ pc = "done"
  /\ transport = <<s_xhttp>>
  /\ fwdReq = <<bridgedRequest>>
  /\ resp = <<[status |-> 101, message |-> <<>>, webSocket |-> TRUE, source |-> "proxy"]>>
  /\ calls = <<handleXhttpBegin(bridgedRequest, defaultEnv).call>>
  /\ earlyData = <<>>
  /\ earlyDataHint = <<0>>
  /\ accepted = [s \in Side |-> TRUE]
  /\ bodyCancelled = FALSE
  /\ closeCalls = [s \in Side |-> <<>>]
  /\ sent = [s \in Side |-> <<>>]
  /\ trace = <<"pair", "accept_client", "dial", "accept_backend", "bridge", "respond">>
  /\ log = <<>>
  /\ bridged = TRUE
  /\ closed = FALSE
  /\ recvd = [s \in Side |-> <<>>]
  /\ pending = {}
  /\ relayErrors = <<>>
  /\ evClosed = [s \in Side |-> FALSE]
  /\ errCount = [s \in Side |-> 0]
  /\ closeBothRuns = 0
  /\ cause = <<>>
  /\ settled = <<[how |-> "response", status |-> 101, webSocket |-> TRUE, body |-> FALSE]>>
  /\ timer = "cleared"

NextBridge ==
  \/ \E side \in Side : OnMessage(side)
  \/ BlobResolved
  \/ BlobRejected
  \/ \E side \in Side : OnClose(side)
  \/ \E side \in Side : OnError(side)

SpecBridge == InitBridge /\ [][NextBridge]_vars

(***************************************************************************)
(* Properties of transport selection and request rewriting (SpecRoute)     *)
(***************************************************************************)
Variants == {s_xhttp, s_httpupgrade, s_ws}

\* the value a routing signal of the inbound request names, lower-cased
queryValue == toLowerCase(orElse(paramsGet(searchParams(req.query), s_transport), <<>>))
headerValue == toLowerCase(orElse(req.headers["x-transport-type"], <<>>))

\* the variants v for which the inbound path is /v or starts with /v/
prefixVariants == {v \in Variants : req.path = <<"/">> \o v
                                    \/ startsWith(req.path, <<"/">> \o v \o <<"/">>)}
prefixVariant == CHOOSE v \in prefixVariants : TRUE

\* the inbound path without the prefix /v
withoutPrefix(v) == IF req.path = <<"/">> \o v THEN <<"/">>
                    ELSE SubSeq(req.path, Len(v) + 2, Len(req.path))

selectedBySpec ==
  IF queryValue \in Variants THEN queryValue
  ELSE IF headerValue \in Variants THEN headerValue
  ELSE IF prefixVariants # {} THEN prefixVariant
  ELSE IF env.TRANSPORT # <<>> /\ env.TRANSPORT[1] \in Variants THEN env.TRANSPORT[1]
  ELSE s_xhttp

\* C1: the selected transport is the first valid signal in the order query,
\* header, path prefix, configured default, built-in default xhttp; an
\* invalid higher-ranked value falls through and never produces a response.
C1_SelectionOrder ==
  transport # <<>> => /\ transport[1] = selectedBySpec
                      /\ (pc = "handler" => resp = <<>>)

\* C1 witness: a valid query value won over a conflicting valid header and a
\* conflicting path prefix.
C1_Witness ==
  /\ transport = <<s_ws>>
  /\ queryValue = s_ws
  /\ headerValue = s_xhttp
  /\ prefixVariants = {s_httpupgrade}

\* C7: the request handed to the handler, and every outbound call, carries
\* neither the transport query key nor the x-transport-type header.
C7_SelectorsStripped ==
  /\ fwdReq # <<>> =>
       /\ ~paramsHas(searchParams(fwdReq[1].query), s_transport)
       /\ fwdReq[1].headers["x-transport-type"] = <<>>
  /\ \A i \in 1..Len(calls) :
       /\ ~paramsHas(searchParams(calls[i].url.query), s_transport)
       /\ calls[i].init.headers["x-transport-type"] = <<>>

\* C8: the forwarded path is the inbound path without its /{variant} prefix
\* exactly when the prefix names the selected transport, and the inbound
\* path unchanged otherwise.
C8_PrefixStrippedIffSelected ==
  fwdReq # <<>> =>
    IF prefixVariants # {} /\ prefixVariant = transport[1]
    THEN fwdReq[1].path = withoutPrefix(prefixVariant)
    ELSE fwdReq[1].path = req.path

\* C8 witness: the query selected another transport than the prefix names
\* and the path was forwarded unchanged.
C8_Witness ==
  /\ fwdReq # <<>>
  /\ prefixVariants = {s_httpupgrade}
  /\ queryValue = s_ws
  /\ transport = <<s_ws>>
  /\ fwdReq[1].path = req.path

onlyPrefixIdentifies ==
  /\ queryValue \notin Variants
  /\ headerValue \notin Variants
  /\ prefixVariants # {}

\* C9 as stated: when only a path prefix identifies the transport, putting
\* the prefix back in front of the forwarded path gives the inbound path,
\* for every inbound path.
C9_RoundTripAll ==
  (fwdReq # <<>> /\ onlyPrefixIdentifies) =>
    <<"/">> \o prefixVariant \o fwdReq[1].path = req.path

\* C9 amended: the prefix is removed exactly once, and putting it back gives
\* the inbound path, except for the bare /{v}, which is forwarded as / and
\* reconstructs as /{v}/.
C9_RoundTripExceptBare ==
  (fwdReq # <<>> /\ onlyPrefixIdentifies) =>
    /\ fwdReq[1].path = withoutPrefix(prefixVariant)
    /\ <<"/">> \o prefixVariant \o fwdReq[1].path =
         IF req.path = <<"/">> \o prefixVariant THEN req.path \o <<"/">> ELSE req.path

\* C9 witness: a doubled prefix lost one copy only.
C9_Witness ==
  /\ fwdReq # <<>>
  /\ onlyPrefixIdentifies
  /\ req.path = pathOf(<<s_ws, s_ws>>)
  /\ fwdReq[1].path = pathOf(<<s_ws>>)

configuredOrigin == orElse(env.BACKEND_URL, BACKEND_ORIGIN).origin

\* C10: every backend call goes to the configured origin, with the inbound
\* path after prefix stripping and the inbound query without the transport
\* key only.
C10_BackendUrl ==
  \A i \in 1..Len(calls) :
    /\ calls[i].url.origin = configuredOrigin
    /\ calls[i].url.path = IF prefixVariants # {} /\ prefixVariant = transport[1]
                           THEN withoutPrefix(prefixVariant) ELSE req.path
    /\ searchParams(calls[i].url.query) = paramsDelete(searchParams(req.query), s_transport)

(***************************************************************************)
(* Properties of the upgrade handlers (Spec)                               *)
(***************************************************************************)
dialed == calls # <<>> /\ calls[1].kind = "upgrade"
dialAccepted == /\ settled # <<>>
                /\ settled[1].how = "response"
                /\ settled[1].status = 101
                /\ settled[1].webSocket

handlerRan == transport # <<>> /\ pc # "handler"

\* the upgrade signal of variant v on the inbound request: Connection
\* contains "upgrade" and Upgrade is "websocket" (any value for httpupgrade)
hasUpgradeSignal(v) ==
  /\ includes(toLowerCase(orElse(req.headers["connection"], <<>>)), s_upgrade)
  /\ orElse(req.headers["upgrade"], <<>>) # <<>>
  /\ v = s_httpupgrade \/ toLowerCase(req.headers["upgrade"][1]) = s_websocket

edParam == paramsGet(searchParams(req.query), s_ed)
\* the ed value is present and is not a string of decimal digits
edNotNatural == edParam # <<>> /\ ~isDigits(edParam[1])
edValue == IF edParam = <<>> \/ ~isDigits(edParam[1]) THEN 0 ELSE digitsValue(edParam[1])
modeParam == paramsGet(searchParams(req.query), s_mode)
modeValid == /\ modeParam = <<>> => req.headers["x-xhttp-mode"] = <<>>
             /\ modeParam # <<>> => toLowerCase(modeParam[1]) \in {s_auto, s_packetup}
configValid == env.BACKEND_URL = <<>> \/ env.BACKEND_URL[1].ok

rejectedLocally(status) ==
  /\ pc = "done"
  /\ resp[1].status = status /\ resp[1].source = "proxy"
  /\ calls = <<>>
  /\ ~accepted["client"]
  /\ trace = <<>>

C12_HintZeroOrCapped ==
  /\ (transport = <<s_xhttp>> /\ dialed) =>
        /\ earlyDataHint = <<Min(edValue, 65536)>>
        /\ earlyData # <<>> => Len(earlyData[1]) <= Min(edValue, 65536)
        /\ edValue = 0 =>
             /\ earlyData = <<>>
             /\ calls[1].init.headers["sec-websocket-protocol"]
                  = req.headers["sec-websocket-protocol"]
             /\ sent["backend"] = <<>>
  /\ (transport = <<s_xhttp>> /\ handlerRan /\ hasUpgradeSignal(s_xhttp)
        /\ edValue > 65536 /\ modeValid /\ configValid) => dialed

\* C12 witness: ed=70000 was capped to 65536 and the three-byte token was
\* extracted.
C12_Witness ==
  /\ transport = <<s_xhttp>> /\ dialed
  /\ edValue = 70000
  /\ earlyDataHint = <<65536>>
  /\ earlyData = <<<<1, 2, 3>>>>

\* C13: under a valid backend configuration, a ws or httpupgrade request
\* with the variant's upgrade signal and a method other than GET is answered
\* 400 with no backend call and no client-facing endpoint; an xhttp upgrade
\* request with valid options is dialed whatever its method.
C13_GetOnlyUpgrade ==
  /\ (transport # <<>> /\ transport[1] \in {s_ws, s_httpupgrade} /\ handlerRan
        /\ hasUpgradeSignal(transport[1]) /\ req.method # s_GET /\ configValid) =>
        rejectedLocally(400)
  /\ (transport = <<s_xhttp>> /\ handlerRan /\ hasUpgradeSignal(s_xhttp)
        /\ ~(edNotNatural /\ edParam[1] # <<>>) /\ modeValid /\ configValid) =>
        /\ dialed
        /\ accepted["client"]

\* C13 witness: a POST with the upgrade signal was rejected by the ws
\* handler.
C13_Witness ==
  /\ transport = <<s_ws>> /\ hasUpgradeSignal(s_ws)
  /\ req.method = s_POST
  /\ rejectedLocally(400)

unreachableResponse ==
  [status |-> 502, message |-> <<"Unable to connect to backend service.">>,
   webSocket |-> FALSE, source |-> "proxy"]

\* C14: a backend call that fails because the backend cannot be reached
\* yields 502 "Unable to connect to backend service.", and every request
\* eventually has its terminal response: a pending call fails, resolves or
\* is aborted by its deadline.
C14_UnreachableNeverHangs ==
  /\ []((settled # <<>> /\ settled[1].how = "error") =>
          (pc = "done" /\ resp = <<unreachableResponse>>))
  /\ [](calls # <<>> => (pc = "done" \/ timer \in {"armed", "fired"}))
  /\ <>(pc = "done" /\ resp # <<>>)

\* C14 witness: the passthrough call failed before its deadline and the
\* request got the 502.
C14_Witness ==
  /\ pc = "done"
  /\ calls # <<>> /\ calls[1].kind = "passthrough"
  /\ settled = <<[how |-> "error"]>>
  /\ resp = <<unreachableResponse>>

proxy502(message) ==
  [status |-> 502, message |-> <<message>>, webSocket |-> FALSE, source |-> "proxy"]

\* C15: the passthrough call runs under the 15000 ms budget and the upgrade
\* dial under the 5000 ms budget; a call aborted by its deadline yields 502
\* "Backend request timed out." (passthrough) or "Backend upgrade timed
\* out." (dial), any other failure 502 "Unable to connect to backend
\* service."; a timer is armed only while its call is pending and is
\* cleared when the call settles.
C15_DeadlinesDistinct ==
  /\ \A i \in 1..Len(calls) :
       calls[i].timeoutMs = IF calls[i].kind = "passthrough" THEN 15000 ELSE 5000
  /\ (settled # <<>> /\ settled[1].how = "abort") =>
       resp = <<proxy502(IF calls[1].kind = "passthrough" THEN "Backend request timed out."
                         ELSE "Backend upgrade timed out.")>>
  /\ (settled # <<>> /\ settled[1].how = "error") =>
       resp = <<proxy502("Unable to connect to backend service.")>>
  /\ timer \in {"armed", "fired"} <=> pc \in {"await_pass", "await_dial"}
  /\ settled # <<>> => timer = "cleared"
  /\ calls = <<>> => timer = "none"

\* C15 witness: the deadline of the upgrade dial expired.
C15_Witness ==
  /\ dialed
  /\ settled = <<[how |-> "abort"]>>
  /\ timer = "cleared"
  /\ resp = <<proxy502("Backend upgrade timed out.")>>

\* the path the handler sees: the inbound path without the prefix of the
\* selected transport
forwardedPath == IF prefixVariants # {} /\ prefixVariant = transport[1]
                 THEN withoutPrefix(prefixVariant) ELSE req.path

\* C16: under a valid backend configuration, a request without the upgrade
\* signal of the selected transport is forwarded with its method, its body
\* unless the method is GET or HEAD, its headers without Host and
\* x-transport-type, under the passthrough deadline, and the backend's
\* response is returned as it is.
C16_PassthroughVerbatim ==
  (handlerRan /\ ~hasUpgradeSignal(transport[1]) /\ configValid) =>
    /\ Len(calls) = 1
    /\ calls[1].kind = "passthrough"
    /\ calls[1].init.method = req.method
    /\ calls[1].init.body = IF req.method \in {s_GET, s_HEAD} THEN <<>> ELSE req.body
    /\ calls[1].init.headers =
         [req.headers EXCEPT !["host"] = <<>>, !["x-transport-type"] = <<>>]
    /\ calls[1].url.path = forwardedPath
    /\ calls[1].timeoutMs = 15000
    /\ ~accepted["client"]
    /\ (settled # <<>> /\ settled[1].how = "response") =>
         resp = <<backendResponse(settled[1].status)>>

\* C16 witness: POST /ws/x without upgrade headers went to /x with its body
\* and the backend's 200 was returned.
C16_Witness ==
  /\ req.method = s_POST /\ req.path = pathOf(<<s_ws, s_x>>)
  /\ transport = <<s_ws>>
  /\ pc = "done" /\ calls # <<>>
  /\ calls[1].url.path = pathOf(<<s_x>>)
  /\ calls[1].init.body = <<"body">>
  /\ resp[1].status = 200 /\ resp[1].source = "backend"

flipDebug(e) == [e EXCEPT !.DEBUG = IF e.DEBUG = <<"true">> THEN <<>> ELSE <<"true">>]

tokenBytes ==
  LET h == req.headers["sec-websocket-protocol"]
  IN IF h = <<s_AQID>> THEN <<<<1, 2, 3>>>>
     ELSE IF h # <<>> /\ startsWith(h[1], <<"A", "Q", "I", ",">>) THEN <<<<1, 2>>>>
     ELSE <<>>

upgradeSteps == <<"pair", "accept_client", "dial", "accept_backend">>

\* C18: on an xhttp upgrade with an effective hint above 0, a first token
\* that decodes to at most hint bytes is taken off the dial's headers and
\* sent as the first frame on the backend endpoint, after its accept and
\* before the bridge is wired; a token that does not decode or is longer
\* than the hint is ignored: header left on the dial, no early frame, no
\* error response.
C18_EarlyDataFirstFrame ==
  (transport = <<s_xhttp>> /\ dialed /\ earlyDataHint[1] > 0) =>
    IF tokenBytes # <<>> /\ Len(tokenBytes[1]) <= earlyDataHint[1]
    THEN /\ earlyData = tokenBytes
         /\ calls[1].init.headers["sec-websocket-protocol"] = <<>>
         /\ bridged =>
              /\ sent["backend"] = <<earlyFrame(tokenBytes[1])>>
              /\ trace = upgradeSteps \o <<"send_early", "bridge", "respond">>
         /\ ~bridged => sent["backend"] = <<>>
    ELSE /\ earlyData = <<>>
         /\ calls[1].init.headers["sec-websocket-protocol"]
              = req.headers["sec-websocket-protocol"]
         /\ sent["backend"] = <<>>
         /\ bridged => resp[1].status = 101

\* C18 witness: ed=2 and the token AQI: the two bytes went out as the first
\* frame of the bridged session.
C18_Witness ==
  /\ transport = <<s_xhttp>> /\ bridged
  /\ earlyDataHint = <<2>>
  /\ sent["backend"] = <<earlyFrame(<<1, 2>>)>>

\* C19: on the upgrade path of every transport the client-facing pair is
\* allocated and its worker side accepted before the dial is issued, and the
\* 101 is returned only after the backend endpoint was accepted and the
\* bridge wired.
C19_AllocateBeforeDial ==
  /\ dialed =>
       /\ SubSeq(trace, 1, 3) = <<"pair", "accept_client", "dial">>
       /\ accepted["client"]
  /\ pc = "await_dial" => ~accepted["backend"] /\ ~bridged /\ resp = <<>>
  /\ (resp # <<>> /\ resp[1].source = "proxy" /\ resp[1].status = 101) =>
       /\ dialed
       /\ accepted["backend"] /\ bridged
       /\ trace \in {upgradeSteps \o <<"bridge", "respond">>,
                      upgradeSteps \o <<"send_early", "bridge", "respond">>}

\* C19 witness: an httpupgrade request was upgraded.
C19_Witness ==
  /\ transport = <<s_httpupgrade>>
  /\ dialed
  /\ resp # <<>> /\ resp[1].status = 101 /\ resp[1].webSocket
  /\ bridged

\* C20: a dial that fails after the client-facing endpoint was allocated
\* closes that endpoint with 1011 before the handler returns, with 502
\* "Backend upgrade timed out." for an expired deadline and 502 "Unable to
\* connect to backend service." otherwise; no response other than the 101
\* is returned while the client-facing endpoint is open.
C20_DialFailureClosesClient ==
  /\ (dialed /\ settled # <<>> /\ settled[1].how \in {"abort", "error"}) =>
       /\ Len(closeCalls["client"]) = 1
       /\ closeCalls["client"][1].code = 1011
       /\ closeCalls["client"][1].reason = s_UnableConnect
       /\ trace = <<"pair", "accept_client", "dial", "close_client", "respond">>
       /\ resp = <<proxy502(IF settled[1].how = "abort" THEN "Backend upgrade timed out."
                             ELSE "Unable to connect to backend service.")>>
  /\ (accepted["client"] /\ resp # <<>> /\ ~(resp[1].status = 101 /\ resp[1].webSocket)) =>
       Len(closeCalls["client"]) = 1

\* C20 witness: the dial failed before its deadline and the client-facing
\* endpoint was closed.
C20_Witness ==
  /\ dialed
  /\ settled = <<[how |-> "error"]>>
  /\ Len(closeCalls["client"]) = 1 /\ closeCalls["client"][1].code = 1011
  /\ resp = <<proxy502("Unable to connect to backend service.")>>

\* C21: under a valid configuration a handled request takes the passthrough
\* path exactly when it lacks the variant's upgrade signal (Connection
\* contains "upgrade" and Upgrade is "websocket", or any non-empty value for
\* httpupgrade); with the signal it is rejected locally or dialed, and the
\* dial carries Connection: Upgrade, Upgrade: websocket (the inbound value
\* for httpupgrade) and neither Host nor Sec-WebSocket-Extensions.
C21_UpgradePathAndDialHeaders ==
  (handlerRan /\ configValid) =>
    /\ (calls # <<>> /\ calls[1].kind = "passthrough") <=> ~hasUpgradeSignal(transport[1])
    /\ hasUpgradeSignal(transport[1]) => (dialed \/ rejectedLocally(400))
    /\ dialed =>
         LET h == calls[1].init.headers
         IN /\ h["connection"] = <<s_Upgrade>>
            /\ h["upgrade"] = IF transport[1] = s_httpupgrade THEN req.headers["upgrade"]
                               ELSE <<s_websocket>>
            /\ h["host"] = <<>>
            /\ h["sec-websocket-extensions"] = <<>>

\* an httpupgrade request with Upgrade: h2c is dialed with that value
C21_Witness ==
  /\ dialed
  /\ transport = <<s_httpupgrade>>
  /\ req.headers["upgrade"] = <<s_h2c>>
  /\ req.headers["sec-websocket-extensions"] # <<>>
  /\ calls[1].init.headers["upgrade"] = <<s_h2c>>


\* ed is present, not empty and not a non-negative integer
edRejected == edNotNatural /\ edParam[1] # <<>>

\* the mode the claim names: the query value, else the header value, else auto
modeBySpec ==
  IF modeParam # <<>> THEN toLowerCase(modeParam[1])
  ELSE IF req.headers["x-xhttp-mode"] # <<>> THEN toLowerCase(req.headers["x-xhttp-mode"][1])
  ELSE s_auto

\* C23: an xhttp upgrade request (with an acceptable ed) whose mode, taken
\* from the query, else from the header, else auto, is not auto or packet-up
\* is answered 400 with no backend call and no endpoint; with an allowed
\* mode it is not rejected as a client error.
C23_ModeResolution ==
  (handlerRan /\ transport = <<s_xhttp>> /\ hasUpgradeSignal(s_xhttp) /\ ~edRejected) =>
    IF modeBySpec \in {s_auto, s_packetup}
    THEN pc = "done" => resp[1].status # 400
    ELSE /\ rejectedLocally(400)
         /\ resp[1].message = <<"Invalid xhttp mode. Supported values are auto and packet-up.">>

\* C23 witness: mode=bogus in the query is rejected although the header
\* names an allowed mode.
C23_Witness ==
  /\ transport = <<s_xhttp>> /\ hasUpgradeSignal(s_xhttp)
  /\ modeParam = <<<<"b", "o", "g", "u", "s">>>>
  /\ req.headers["x-xhttp-mode"] = <<s_auto>>
  /\ rejectedLocally(400)


\* an xhttp upgrade request whose ed or mode is not acceptable
xhttpOptionsInvalid ==
  /\ transport = <<s_xhttp>>
  /\ hasUpgradeSignal(s_xhttp)
  /\ edRejected \/ modeBySpec \notin {s_auto, s_packetup}

\* C24 as stated: under an invalid backend origin every handled request is
\* answered 500 with no backend call and no endpoint.
C24_InvalidBackendAlways500 ==
  (handlerRan /\ ~configValid) => rejectedLocally(500)

\* C24 amended: under an invalid backend origin every handled request is
\* answered locally with no backend call and no endpoint: with 500, except
\* an xhttp upgrade request with an invalid ed or mode, which gets its 400.
C24_InvalidBackendNoCall ==
  (handlerRan /\ ~configValid) =>
    /\ rejectedLocally(IF xhttpOptionsInvalid THEN 400 ELSE 500)
    /\ ~xhttpOptionsInvalid => resp[1].message = <<"BACKEND_URL is not a valid URL.">>

\* C24 witness: an httpupgrade upgrade request under an invalid origin got 500
C24_Witness ==
  /\ ~configValid
  /\ transport = <<s_httpupgrade>> /\ hasUpgradeSignal(s_httpupgrade)
  /\ req.method = s_GET
  /\ rejectedLocally(500)

\* the backend answered the outbound call with a 3xx response
redirectAnswered ==
  /\ pc = "done" /\ settled # <<>>
  /\ settled[1].how = "response" /\ settled[1].status \in 300..399

\* C25 as stated: every outbound call is in manual-redirect mode, no second
\* call follows a 3xx, and a backend redirect is returned to the caller as
\* the backend sent it.
C25_RedirectSurfacedAsIs ==
  /\ \A i \in 1..Len(calls) : calls[i].init.redirect = "manual"
  /\ Len(calls) <= 1
  /\ redirectAnswered => resp = <<backendResponse(settled[1].status)>>

\* C25 amended: every outbound call is in manual-redirect mode and no second
\* call follows a 3xx; a redirect answering the passthrough call is returned
\* as the backend sent it, a redirect answering the upgrade dial is a
\* rejected upgrade, answered 502 with the status in the message.
C25_RedirectsNotFollowed ==
  /\ \A i \in 1..Len(calls) : calls[i].init.redirect = "manual"
  /\ Len(calls) <= 1
  /\ redirectAnswered =>
       resp = IF calls[1].kind = "passthrough" THEN <<backendResponse(settled[1].status)>>
              ELSE <<textResponse(502, <<"Backend failed to upgrade connection (status ",
                                         settled[1].status, ").">>)>>

\* C25 witness: the backend answered the passthrough call with 302 and the
\* caller got that response.
C25_Witness ==
  /\ redirectAnswered
  /\ Len(calls) = 1 /\ calls[1].kind = "passthrough"
  /\ resp = <<backendResponse(302)>>


\* C26: when an upgrade handler returns a response other than 101, close
\* was invoked on every endpoint accepted during the request: the worker
\* side of the client pair and the backend endpoint.
C26_NoEndpointLeak ==
  (pc = "done" /\ handlerRan /\ resp[1].status # 101) =>
    \A s \in Side : accepted[s] => closeCalls[s] # <<>>


\* C28: a request issues at most one backend call: one while a passthrough
\* or a dial is pending and after it settled, whatever the outcome, and
\* none when the proxy answers locally (landing page 200, 400, 500).
C28_OneCallPerRequest ==
  /\ Len(calls) <= 1
  /\ pc \in {"await_pass", "await_dial"} => Len(calls) = 1
  /\ pc = "done" =>
       IF resp[1].source = "proxy" /\ resp[1].status \in {200, 400, 500}
       THEN calls = <<>> /\ settled = <<>>
       ELSE Len(calls) = 1 /\ settled # <<>>

\* C28 witness: the dial timed out and the request ended with its one call
C28_Witness ==
  /\ pc = "done" /\ settled # <<>> /\ settled[1].how = "abort"
  /\ Len(calls) = 1 /\ calls[1].kind = "upgrade"
  /\ resp = <<textResponse(502, <<"Backend upgrade timed out.">>)>>

\* C29: every upgrade dial is a GET without a body; ws and httpupgrade dial
\* only for an inbound GET, xhttp dials also for another inbound method,
\* whose method and body the dial does not carry.
C29_DialIsBodylessGet ==
  /\ \A i \in 1..Len(calls) : calls[i].kind = "upgrade" =>
       /\ calls[i].init.method = s_GET
       /\ calls[i].init.body = <<>>
       /\ transport[1] \in {s_ws, s_httpupgrade} => req.method = s_GET
  /\ (handlerRan /\ transport = <<s_xhttp>> /\ hasUpgradeSignal(s_xhttp) /\ configValid
        /\ ~xhttpOptionsInvalid) => dialed

\* C29 witness: an xhttp POST with a body and the upgrade signal was dialed
\* as a GET without a body.
C29_Witness ==
  /\ dialed /\ transport = <<s_xhttp>>
  /\ req.method = s_POST /\ req.body # <<>>
  /\ calls[1].init.method = s_GET /\ calls[1].init.body = <<>>


(***************************************************************************)
(* Properties of the duplex bridge (SpecBridge)                            *)
(***************************************************************************)
\* the sends toward `dest` that did not throw
delivered(dest) == SelectSeq(sent[dest], LAMBDA f : f.kind = "relay" /\ ~f.threw)

\* C3: the messages of one direction reach the peer in the order in which
\* they were received.
C3_OrderPreserved ==
  \A dest \in Side : \A i, j \in 1..Len(delivered(dest)) :
    i < j => delivered(dest)[i].id < delivered(dest)[j].id

isText(type) == type = "string"

\* C4: every message received while the bridge is open is forwarded with its
\* framing (or its failure is reported): none is dropped silently, also not
\* a Blob whose materialisation settles after a close or error event.
C4_NoSilentDrop ==
  /\ \A side \in Side : \A i \in 1..Len(recvd[side]) :
       LET msg == recvd[side][i]
       IN ~msg.late =>
            \/ msg \in pending
            \/ \E k \in 1..Len(sent[Peer(side)]) :
                 sent[Peer(side)][k].kind = "relay" /\ sent[Peer(side)][k].id = msg.id
            \/ \E k \in 1..Len(relayErrors) :
                 relayErrors[k] = [direction |-> direction(side), id |-> msg.id]
  /\ \A dest \in Side : \A k \in 1..Len(delivered(dest)) :
       LET f == delivered(dest)[k]
       IN /\ f.id \in 1..Len(recvd[f.src])
          /\ f.src = Peer(dest)
          /\ isText(f.type) <=> isText(recvd[f.src][f.id].type)

sanitized(c) == IF c \in (1000..4999) \ {1005, 1006} THEN c ELSE 1011

\* C5: a close event with code c that finds the bridge open closes both
\* endpoints with sanitize(c) and with the peer's reason, or the side's
\* fallback reason when the peer gave none.
C5_CloseMirrored ==
  (cause # <<>> /\ cause[1].kind = "close") =>
    \A s \in Side :
      /\ Len(closeCalls[s]) = 1
      /\ closeCalls[s][1].code = sanitized(cause[1].code)
      /\ closeCalls[s][1].reason =
           IF cause[1].reason # <<>> THEN cause[1].reason
           ELSE IF cause[1].side = "client" THEN s_ClientClosed ELSE s_BackendClosed

\* C5 witness: a close event with the reserved code 1005 closed both
\* endpoints with 1011.
C5_Witness ==
  /\ cause # <<>> /\ cause[1].kind = "close" /\ cause[1].code = 1005
  /\ \A s \in Side : Len(closeCalls[s]) = 1 /\ closeCalls[s][1].code = 1011

someTrigger == \/ \E s \in Side : evClosed[s] \/ errCount[s] > 0
               \/ relayErrors # <<>>

\* C6: closeBoth passes its guard exactly once however many close events,
\* error events and forwarding failures occur; each endpoint gets at most
\* one close call, and both carry the code and reason of the first event.
C6_CloseBothOnce ==
  /\ closeBothRuns <= 1
  /\ closed <=> closeBothRuns = 1
  /\ someTrigger => closeBothRuns = 1
  /\ \A s \in Side : Len(closeCalls[s]) = closeBothRuns
  /\ closed =>
       /\ closeCalls["client"][1].code = closeCalls["backend"][1].code
       /\ closeCalls["client"][1].reason = closeCalls["backend"][1].reason
       /\ closeCalls["client"][1].code = sanitized(cause[1].code)

\* C6 witness: close events on both endpoints and an error event occurred
\* and the endpoints were closed once.
C6_Witness ==
  /\ \A s \in Side : evClosed[s]
  /\ \E s \in Side : errCount[s] > 0
  /\ closeBothRuns = 1
  /\ \A s \in Side : Len(closeCalls[s]) = 1

\* the state part of C22
relayFailuresClose ==
  /\ \A dest \in Side : \A k \in 1..Len(sent[dest]) :
       (sent[dest][k].kind = "relay" /\ sent[dest][k].threw) =>
         \E i \in 1..Len(relayErrors) :
           relayErrors[i] = [direction |-> direction(sent[dest][k].src),
                             id |-> sent[dest][k].id]
  /\ (cause # <<>> /\ cause[1].kind = "relay") =>
       /\ relayErrors # <<>>
       /\ relayErrors[1].direction = direction(cause[1].side)
       /\ \A s \in Side : /\ closeCalls[s][1].code = 1011
                           /\ closeCalls[s][1].reason = s_RelayFailure
  /\ (cause # <<>> /\ cause[1].kind = "error") =>
       \A s \in Side : /\ closeCalls[s][1].code = 1011
                       /\ closeCalls[s][1].reason =
                            IF cause[1].side = "client" THEN s_ClientError
                            ELSE s_BackendError
  /\ (relayErrors # <<>> \/ \E s \in Side : errCount[s] > 0) =>
       \A s \in Side : Len(closeCalls[s]) = 1

\* C22: a failed send or a failed Blob materialisation invokes onRelayError
\* with its direction, and when it finds the bridge open both endpoints are
\* closed with 1011 'Relay failure'; an error event that finds the bridge
\* open closes both with 1011 and the side's reason, and no error event
\* invokes onRelayError; after either, close was invoked on both endpoints.
C22_FailuresCloseBoth ==
  /\ []relayFailuresClose
  /\ [][errCount' # errCount => relayErrors' = relayErrors]_vars
  /\ [][(pending' # pending /\ recvd' = recvd /\ closed' # closed) =>
         Len(relayErrors') = Len(relayErrors) + 1]_vars

\* C22 witness: a client message failed to forward, both endpoints were
\* closed with 'Relay failure', and an error event followed.
C22_Witness ==
  /\ cause # <<>> /\ cause[1].kind = "relay"
  /\ relayErrors = <<[direction |-> "client->backend", id |-> 1]>>
  /\ \A s \in Side : Len(closeCalls[s]) = 1 /\ closeCalls[s][1].reason = s_RelayFailure
  /\ \E s \in Side : errCount[s] = 1

\* C27: once closeBoth has executed, no step of the bridge attempts a send
\* on either endpoint or invokes onRelayError.
C27_QuietAfterClose ==
  [][closed => (sent' = sent /\ relayErrors' = relayErrors)]_vars

====
